---- MODULE Spec2Model ----
(***************************************************************************)
(* Planning-poker room: the store (rooms / players / votes tables and the  *)
(* change feed), the clients running the useSupabaseRoom hook, the AI vote *)
(* scheduler and the generateAiVote adapter.                               *)
(*                                                                         *)
(* Modelling conventions                                                   *)
(*  - one room id; a client's human id is the client's name;               *)
(*  - a store call is one step at its commit; where the continuation of an *)
(*    await reads or writes the hook's state it is a step of its own, so   *)
(*    that change events can be delivered between commit and continuation; *)
(*  - the change feed delivers to each subscribed client in commit order;  *)
(*  - the AI trigger effect runs after every change of the hook's state.   *)
(***************************************************************************)
EXTENDS Integers, Sequences, FiniteSets, TLC

VARIABLES
  dbRoom,          \* rooms row of the room, or NoRoom
  dbPlayers,       \* players rows of the room, in insertion order
  dbVotes,         \* votes rows of the room, keyed by player_id
  inbox,           \* per client: change events committed and not yet handled
  roomState,       \* per client: the hook's roomState
  isProcessingAI,  \* per client: the hook's isProcessingAI
  pc,              \* per client: where its user-initiated async call stands
  arg,             \* per client: the locals of that call
  pass,            \* per client: the triggerAiVotes call in flight, or NoPass
  ops,             \* number of user operations started so far
  limit,           \* the number of user operations the run may start
  oracleCalls,     \* per AI id: generateAiVote calls since the store last entered VOTING
  lastVote,        \* per client: the card of its last handleVote the store accepted
  fresh,           \* ids whose votes row was written in VOTING since the store last entered VOTING
  gen,             \* one generateAiVote invocation: its inputs and what it did
  supabase,        \* the store client the hook imports: "client", or "null" when not configured
  otherRoomPlayers, \* ids of the players rows whose room_id is another room
  leaving,         \* clients with a leaveRoom delete of an earlier effect run not yet committed
  localStorage,    \* the browser's localStorage: the items stored, by key
  resolved         \* the last run of lines 40-44: its room id, its userId, whether generateId ran

vars == <<dbRoom, dbPlayers, dbVotes, inbox, roomState, isProcessingAI, pc, arg,
          pass, ops, limit, oracleCalls, lastVote, fresh, gen, supabase,
          otherRoomPlayers, leaving, localStorage, resolved>>

----------------------------------------------------------------------------
(* Bounds *)

MaxQueue == 4
MaxOps == 4
MaxSoloOps == 4
MaxBootOps == 4

----------------------------------------------------------------------------
(* types.ts, constants.ts *)

Clients == {"u1", "u2"}

HUMAN == "HUMAN"
AI == "AI"

SETUP == "SETUP"
VOTING == "VOTING"
REVEALED == "REVEALED"
GamePhase == {SETUP, VOTING, REVEALED}

\* A JavaScript value of type number or string; equality of two such records
\* is JavaScript's ===.
Num(n) == [k |-> "number", n |-> n, s |-> ""]
Str(s) == [k |-> "string", n |-> 0, s |-> s]

FIBONACCI_DECK == <<Num(1), Num(2), Num(3), Num(5), Num(8), Num(13), Num(21), Str("?")>>

AI_PERSONAS == <<"ai-senior", "ai-junior", "ai-qa", "ai-pm">>
AiIds == {AI_PERSONAS[i] : i \in 1..Len(AI_PERSONAS)}
Ids == Clients \cup AiIds

\* Number.prototype.toString on the non-negative integers below 100.
Digit(d) ==
  CASE d = 0 -> "0" [] d = 1 -> "1" [] d = 2 -> "2" [] d = 3 -> "3" [] d = 4 -> "4"
    [] d = 5 -> "5" [] d = 6 -> "6" [] d = 7 -> "7" [] d = 8 -> "8" [] d = 9 -> "9"

NumberToString(n) ==
  IF n < 10 THEN Digit(n) ELSE Digit(n \div 10) \o Digit(n % 10)

\* value.toString() of a number | string
toString(v) == IF v.k = "string" THEN v ELSE Str(NumberToString(v.n))

----------------------------------------------------------------------------
(* Strings of the story: sequences of characters, so that trim() is computed *)

Whitespace == {" ", "\t", "\n"}

RECURSIVE TrimStart(_)
TrimStart(s) ==
  IF s # <<>> /\ Head(s) \in Whitespace THEN TrimStart(Tail(s)) ELSE s

RECURSIVE TrimEnd(_)
TrimEnd(s) ==
  IF s # <<>> /\ s[Len(s)] \in Whitespace THEN TrimEnd(SubSeq(s, 1, Len(s) - 1)) ELSE s

\* Variant of Trim: the string as it is.
TrimNothing(s) == s

Trim(s) == TrimEnd(TrimStart(s))

EmptyStory == [title |-> <<>>, description |-> <<>>]

----------------------------------------------------------------------------
(* Finite maps (JavaScript objects used as records keyed by player id) *)

EmptyMap == [x \in {} |-> x]

\* localStorage.getItem's null; the strings it stores are sequences of
\* characters.
NoItem == <<"null">>
\* No run of lines 40-44 yet.
NoResolution == [roomId |-> <<>>, userId |-> NoItem, generated |-> FALSE]

Put(m, key, v) == [x \in DOMAIN m \cup {key} |-> IF x = key THEN v ELSE m[x]]
Remove(m, key) == [x \in DOMAIN m \ {key} |-> m[x]]

RECURSIVE SeqFilterOut(_, _)
\* players.filter(p => p.id !== id)
SeqFilterOut(seq, id) ==
  IF seq = <<>> THEN <<>>
  ELSE IF Head(seq).id = id THEN SeqFilterOut(Tail(seq), id)
       ELSE <<Head(seq)>> \o SeqFilterOut(Tail(seq), id)

RECURSIVE SeqOfType(_, _)
\* players.filter(p => p.type === type)
SeqOfType(seq, type) ==
  IF seq = <<>> THEN <<>>
  ELSE IF Head(seq).type = type THEN <<Head(seq)>> \o SeqOfType(Tail(seq), type)
       ELSE SeqOfType(Tail(seq), type)

IdsOf(seq) == {seq[i].id : i \in 1..Len(seq)}

----------------------------------------------------------------------------
(* services/geminiService: generateAiVote *)

validPoints == <<1, 2, 3, 5, 8, 13, 21>>

Abs(x) == IF x < 0 THEN -x ELSE x

\* The points field of the parsed oracle payload: a number, kept in halves
\* (h = 2 * points) so that values between two cards exist, or undefined.
Points(h) == [defined |-> TRUE, h |-> h]
Undefined == [defined |-> FALSE, h |-> 0]

\* validPoints.includes(points)
Includes(points) ==
  points.defined /\ \E i \in 1..Len(validPoints) : 2 * validPoints[i] = points.h

\* Variant of Closer: <= in place of <.
CloserOrTie(curr, prev, points) ==
  points.defined /\ Abs(2 * curr - points.h) <= Abs(2 * prev - points.h)

\* Math.abs(curr - points) < Math.abs(prev - points); false when points is
\* undefined (NaN < NaN)
Closer(curr, prev, points) ==
  points.defined /\ Abs(2 * curr - points.h) < Abs(2 * prev - points.h)

RECURSIVE Reduce(_, _, _)
\* validPoints.reduce((prev, curr) => Closer ? curr : prev), from index i on
Reduce(prev, i, points) ==
  IF i > Len(validPoints) THEN prev
  ELSE Reduce(IF Closer(validPoints[i], prev, points) THEN validPoints[i] ELSE prev,
              i + 1, points)

\* lines 96-102: the points returned for the payload's points
Snap(points) ==
  IF Includes(points) THEN points.h \div 2 ELSE Reduce(validPoints[1], 2, points)

\* getClient(): the cached client, or a new one when a key is present and the
\* constructor does not throw; null otherwise
getClient(env) ==
  IF env.aiClient THEN "client"
  ELSE IF ~env.apiKey THEN "null"
  ELSE IF env.ctorThrows THEN "null"
  ELSE "client"

NoContext == "no context"
Offline == "offline"
Trouble == "trouble connecting"

\* The body of the try block on the oracle's response: what it returns, or
\* that it threw.
TryBody(resp) ==
  CASE resp.kind = "throw" -> [thrown |-> TRUE, points |-> 0, reasoning |-> ""]
    [] resp.kind = "notext" -> [thrown |-> TRUE, points |-> 0, reasoning |-> ""]
    [] resp.kind = "badjson" -> [thrown |-> TRUE, points |-> 0, reasoning |-> ""]
    [] resp.kind = "null" -> [thrown |-> TRUE, points |-> 0, reasoning |-> ""]
    [] resp.kind = "object" ->
         [thrown |-> FALSE, points |-> Snap(resp.points), reasoning |-> resp.reasoning]

\* Variant of Catch: the exception goes on to the caller.
CatchRethrows(r) ==
  IF r.thrown THEN [settled |-> "rejected", points |-> 0, reasoning |-> ""]
  ELSE [settled |-> "resolved", points |-> r.points, reasoning |-> r.reasoning]

\* The catch block: every exception of the try block becomes the fallback.
Catch(r) ==
  IF r.thrown THEN [settled |-> "resolved", points |-> 8, reasoning |-> Trouble]
  ELSE [settled |-> "resolved", points |-> r.points, reasoning |-> r.reasoning]

\* generateAiVote(story, personaName, personaRole) in environment env: what
\* the promise settles with, whether getClient was called and whether a
\* request was sent to the oracle.
generateAiVote(story, env) ==
  IF Trim(story.title) = <<>> /\ Trim(story.description) = <<>>
    THEN [settled |-> "resolved", points |-> validPoints[env.rand + 1],
          reasoning |-> NoContext, consulted |-> FALSE, requested |-> FALSE]
    ELSE IF getClient(env) = "null"
      THEN [settled |-> "resolved", points |-> 8, reasoning |-> Offline,
            consulted |-> TRUE, requested |-> FALSE]
      ELSE LET r == Catch(TryBody(env.resp)) IN
           [settled |-> r.settled, points |-> r.points, reasoning |-> r.reasoning,
            consulted |-> TRUE, requested |-> TRUE]

----------------------------------------------------------------------------
(* The store: migrations/001_initial_schema.sql, and its change feed *)

NoRoom == [exists |-> FALSE, phase |-> SETUP, story |-> EmptyStory]
RoomRow(phase, story) == [exists |-> TRUE, phase |-> phase, story |-> story]

PlayerRow(id, type) == [id |-> id, type |-> type]
VoteRow(id, value, reasoning) == [player_id |-> id, value |-> value, reasoning |-> reasoning]

\* The hook is mounted with its channel subscribed.
Subscribed(c) == pc[c] \notin {"closed", "left", "threw"}

\* Every subscribed client has room for n more events (the model's bound on
\* the feed's backlog).
CanBroadcast(n) == \A c \in Clients : Subscribed(c) => Len(inbox[c]) + n <= MaxQueue

\* postgres_changes: the events of one commit reach every subscribed client,
\* in commit order.
Broadcast(evs) ==
  inbox' = [c \in Clients |-> IF Subscribed(c) THEN inbox[c] \o evs ELSE inbox[c]]

RoomUpdateEvent(row) == [tbl |-> "rooms", ev |-> "UPDATE", row |-> row]
PlayerInsertEvent(row) == [tbl |-> "players", ev |-> "INSERT", row |-> row]
PlayerDeleteEvent(id) == [tbl |-> "players", ev |-> "DELETE", row |-> [id |-> id]]
VoteUpsertEvent(ev, row) == [tbl |-> "votes", ev |-> ev, row |-> row]
VoteDeleteEvent(id) == [tbl |-> "votes", ev |-> "DELETE", row |-> [player_id |-> id]]

IdOrder == <<"u1", "u2", "ai-senior", "ai-junior", "ai-qa", "ai-pm">>

RECURSIVE VoteDeleteEvents(_, _)
\* One DELETE event per votes row of the set ids.
VoteDeleteEvents(ids, i) ==
  IF i > Len(IdOrder) THEN <<>>
  ELSE (IF IdOrder[i] \in ids THEN <<VoteDeleteEvent(IdOrder[i])>> ELSE <<>>)
       \o VoteDeleteEvents(ids, i + 1)

\* votes.upsert(row): the row replaces the one with the same id; the foreign
\* key votes.player_id -> players.id refuses a row of an absent player.
UpsertAccepted(id) == dbRoom.exists /\ id \in IdsOf(dbPlayers)

UpsertVote(row) ==
  IF UpsertAccepted(row.player_id)
    THEN /\ dbVotes' = Put(dbVotes, row.player_id, row)
         /\ Broadcast(<<VoteUpsertEvent(IF row.player_id \in DOMAIN dbVotes
                                          THEN "UPDATE" ELSE "INSERT", row)>>)
         /\ fresh' = IF dbRoom.phase = VOTING THEN fresh \cup {row.player_id} ELSE fresh
    ELSE UNCHANGED <<dbVotes, inbox, fresh>>

----------------------------------------------------------------------------
(* hooks/useSupabaseRoom: the hook's state and the change handlers *)

InitialRoomState ==
  [story |-> EmptyStory, phase |-> SETUP, players |-> <<>>, votes |-> EmptyMap]

LocalVote(row) == [playerId |-> row.player_id, value |-> row.value, reasoning |-> row.reasoning]

\* Variant of OnRoomUpdate: a phase the client has moved past is not taken.
OnRoomUpdateKeepsPhase(prev, newRoom) ==
  [prev EXCEPT !.story = newRoom.story,
               !.phase = IF prev.phase = SETUP THEN newRoom.phase ELSE prev.phase]

\* lines 69-80
OnRoomUpdate(prev, newRoom) ==
  [prev EXCEPT !.story = newRoom.story, !.phase = newRoom.phase]

\* lines 91-102
OnPlayerInsert(prev, newPlayer) ==
  [prev EXCEPT !.players = Append(prev.players, PlayerRow(newPlayer.id, newPlayer.type))]

\* Variant of OnPlayerDelete: the roster is filtered, the votes are kept.
OnPlayerDeleteRosterOnly(prev, deletedId) ==
  [prev EXCEPT !.players = SeqFilterOut(prev.players, deletedId)]

\* lines 103-111
OnPlayerDelete(prev, deletedId) ==
  [prev EXCEPT
     !.players = SeqFilterOut(prev.players, deletedId),
     !.votes = [x \in {y \in DOMAIN prev.votes : prev.votes[y].playerId # deletedId}
                  |-> prev.votes[x]]]

\* lines 124-136
OnVoteUpsert(prev, newVote) ==
  [prev EXCEPT !.votes = Put(prev.votes, newVote.player_id, LocalVote(newVote))]

\* Variant of OnVoteDelete: the whole map is dropped.
OnVoteDeleteAll(prev, deletedPlayerId) ==
  [prev EXCEPT !.votes = EmptyMap]

\* lines 137-143
OnVoteDelete(prev, deletedPlayerId) ==
  [prev EXCEPT !.votes = Remove(prev.votes, deletedPlayerId)]

\* The handler the channel runs for an event.
Handle(prev, e) ==
  CASE e.tbl = "rooms" /\ e.ev = "UPDATE" -> OnRoomUpdate(prev, e.row)
    [] e.tbl = "players" /\ e.ev = "INSERT" -> OnPlayerInsert(prev, e.row)
    [] e.tbl = "players" /\ e.ev = "DELETE" -> OnPlayerDelete(prev, e.row.id)
    [] e.tbl = "votes" /\ e.ev \in {"INSERT", "UPDATE"} -> OnVoteUpsert(prev, e.row)
    [] e.tbl = "votes" /\ e.ev = "DELETE" -> OnVoteDelete(prev, e.row.player_id)
    [] OTHER -> prev

\* Variant of allVoted: as many estimates as roster entries.
allVotedByCount(rs) ==
  Len(rs.players) > 0 /\ Cardinality(DOMAIN rs.votes) >= Len(rs.players)

\* line 386
allVoted(rs) ==
  Len(rs.players) > 0 /\ \A i \in 1..Len(rs.players) : rs.players[i].id \in DOMAIN rs.votes

----------------------------------------------------------------------------
(* The AI vote trigger effect and triggerAiVotes *)

NoPass == [active |-> FALSE, list |-> <<>>, story |-> EmptyStory, idx |-> 0]

\* Variant of ShouldTrigger: the estimates are not looked at.
ShouldTriggerIgnoresVotes(rs, processing) ==
  /\ rs.phase = VOTING
  /\ Len(SeqOfType(rs.players, AI)) > 0
  /\ ~processing

\* lines 333-338: the effect calls triggerAiVotes
ShouldTrigger(rs, processing) ==
  /\ rs.phase = VOTING
  /\ LET aiPlayers == SeqOfType(rs.players, AI) IN
       /\ Len(aiPlayers) > 0
       /\ ~processing
       /\ ~(\A i \in 1..Len(aiPlayers) : aiPlayers[i].id \in DOMAIN rs.votes)

\* Variant of NewPass: the AI participants are taken last to first.
NewPassBackwards(rs) ==
  LET l == SeqOfType(rs.players, AI) IN
    [active |-> TRUE, list |-> [i \in 1..Len(l) |-> l[Len(l) + 1 - i]],
     story |-> rs.story, idx |-> 1]

\* lines 304-310: the call captures the render's players and story
NewPass(rs) ==
  [active |-> TRUE, list |-> SeqOfType(rs.players, AI), story |-> rs.story, idx |-> 1]

\* Client c renders with roomState rs and isProcessingAI processing; the
\* effect runs; keep is the triggerAiVotes call that goes on if none starts.
Render(c, rs, processing, keep) ==
  /\ roomState' = [roomState EXCEPT ![c] = rs]
  /\ IF ShouldTrigger(rs, processing)
       THEN /\ isProcessingAI' = [isProcessingAI EXCEPT ![c] = TRUE]
            /\ pass' = [pass EXCEPT ![c] = NewPass(rs)]
       ELSE /\ isProcessingAI' = [isProcessingAI EXCEPT ![c] = processing]
            /\ pass' = [pass EXCEPT ![c] = keep]

\* The channel hands client c its next event.
Deliver(c) ==
  /\ Subscribed(c)
  /\ inbox[c] # <<>>
  /\ inbox' = [inbox EXCEPT ![c] = Tail(inbox[c])]
  /\ Render(c, Handle(roomState[c], Head(inbox[c])), isProcessingAI[c], pass[c])
  /\ UNCHANGED <<dbRoom, dbPlayers, dbVotes, pc, arg, ops, oracleCalls, gen, limit, supabase, otherRoomPlayers, leaving, localStorage, resolved, lastVote, fresh>>

----------------------------------------------------------------------------
(* Inputs of the room model *)

\* The cards a human picks in the model: FIBONACCI_DECK[4] = 5 and "?".
DeckPicks == {4, 8}

\* The topics typed in the model.
Stories == {EmptyStory, [title |-> <<"a">>, description |-> <<>>]}

\* The oracle environment a pass meets in the model: no API key, and
\* Math.random picking validPoints[5].
PassEnvs ==
  {[aiClient |-> FALSE, apiKey |-> FALSE, ctorThrows |-> FALSE, rand |-> 4,
    resp |-> [kind |-> "throw", points |-> Undefined, reasoning |-> ""]]}

\* addAiPlayers' shuffled.slice(0, 3): three distinct personas; the model
\* inserts them in catalog order.
Selections ==
  {<<AI_PERSONAS[i], AI_PERSONAS[j], AI_PERSONAS[k]>> :
     <<i, j, k>> \in {t \in (1..Len(AI_PERSONAS)) \X (1..Len(AI_PERSONAS)) \X (1..Len(AI_PERSONAS)) :
                        t[1] < t[2] /\ t[2] < t[3]}}

RECURSIVE NotIn(_, _)
\* the personas of seq whose id is not in existingIds
NotIn(seq, existingIds) ==
  IF seq = <<>> THEN <<>>
  ELSE (IF Head(seq) \in existingIds THEN <<>> ELSE <<Head(seq)>>)
       \o NotIn(Tail(seq), existingIds)

ZeroCalls == [p \in AiIds |-> 0]
NoCard == Str("")
GenIdle == [stage |-> "none"]

----------------------------------------------------------------------------
(* updatePhase: lines 261-281 *)

\* The phase changes the App's buttons request: Start (StoryPanel), Reveal
\* Cards when allVoted (App), Re-vote and Next Round (StoryPanel).
Requestable(rs, phase) ==
  \/ rs.phase = SETUP /\ phase = VOTING
  \/ rs.phase = VOTING /\ phase = REVEALED /\ allVoted(rs)
  \/ rs.phase = REVEALED /\ phase = VOTING

\* Variant of UpdatePhaseLocal: the votes are kept.
UpdatePhaseLocalKeepsVotes(prev, phase) == [prev EXCEPT !.phase = phase]

\* lines 265-269
UpdatePhaseLocal(prev, phase) ==
  [prev EXCEPT !.phase = phase,
               !.votes = IF phase = VOTING THEN EmptyMap ELSE prev.votes]

UpdatePhaseCall(c, phase) ==
  /\ pc[c] = "idle"
  /\ ops < limit
  /\ Requestable(roomState[c], phase)
  /\ ops' = ops + 1
  /\ pc' = [pc EXCEPT ![c] = "updatePhase_update"]
  /\ arg' = [arg EXCEPT ![c] = phase]
  /\ Render(c, UpdatePhaseLocal(roomState[c], phase), isProcessingAI[c], pass[c])
  /\ UNCHANGED <<dbRoom, dbPlayers, dbVotes, inbox, oracleCalls, gen, limit, supabase, otherRoomPlayers, leaving, localStorage, resolved, lastVote, fresh>>

\* lines 272-275 commit: rooms.update({ phase }).eq('id', roomId)
UpdatePhaseRoom(c) ==
  /\ pc[c] \in {"updatePhase_update", "resetGame"}
  /\ CanBroadcast(1)
  /\ IF dbRoom.exists
       THEN /\ dbRoom' = [dbRoom EXCEPT !.phase = arg[c]]
            /\ Broadcast(<<RoomUpdateEvent(dbRoom')>>)
       ELSE UNCHANGED <<dbRoom, inbox>>
  /\ oracleCalls' = IF dbRoom.exists /\ arg[c] = VOTING THEN ZeroCalls ELSE oracleCalls
  /\ fresh' = IF dbRoom.exists /\ arg[c] = VOTING /\ dbRoom.phase # VOTING THEN {} ELSE fresh
  /\ pc' = [pc EXCEPT ![c] = IF pc[c] = "resetGame" THEN "resetGame_delete"
                             ELSE IF arg[c] = VOTING THEN "updatePhase_delete" ELSE "idle"]
  /\ UNCHANGED <<dbPlayers, dbVotes, roomState, isProcessingAI, arg, pass, ops, gen, limit, supabase, otherRoomPlayers, leaving, localStorage, resolved, lastVote>>

\* line 279 commit: votes.delete().eq('room_id', roomId)
UpdatePhaseDelete(c) ==
  /\ pc[c] \in {"updatePhase_delete", "resetGame_delete"}
  /\ CanBroadcast(Cardinality(DOMAIN dbVotes))
  /\ dbVotes' = EmptyMap
  /\ fresh' = {}
  /\ Broadcast(VoteDeleteEvents(DOMAIN dbVotes, 1))
  /\ pc' = [pc EXCEPT ![c] = IF pc[c] = "resetGame_delete" THEN "resetGame_done"
                             ELSE "updatePhase_done"]
  /\ UNCHANGED <<dbRoom, dbPlayers, roomState, isProcessingAI, arg, pass, ops,
                 oracleCalls, gen, limit, supabase, otherRoomPlayers, leaving, localStorage, resolved, lastVote>>

\* line 281: the await of the delete returns and updatePhase(VOTING) completes
UpdatePhaseDone(c) ==
  /\ pc[c] = "updatePhase_done"
  /\ pc' = [pc EXCEPT ![c] = "idle"]
  /\ UNCHANGED <<dbRoom, dbPlayers, dbVotes, inbox, roomState, isProcessingAI, arg,
                 pass, ops, oracleCalls, gen, limit, supabase, otherRoomPlayers, leaving, localStorage, resolved, lastVote, fresh>>

----------------------------------------------------------------------------
(* handleVote: lines 345-355; updateStory: lines 254-259 *)

\* the row handleVote upserts for user id and card value
HumanVoteRow(id, value) == VoteRow(id, toString(value), "undefined")

\* Variant of handleVote: the local phase is not looked at.
HandleVoteUnguarded(c, value) ==
  /\ pc[c] = "idle"
  /\ ops < limit
  /\ CanBroadcast(1)
  /\ ops' = ops + 1
  /\ UpsertVote(HumanVoteRow(c, value))
  /\ lastVote' = IF UpsertAccepted(c) THEN [lastVote EXCEPT ![c] = value] ELSE lastVote
  /\ UNCHANGED <<dbRoom, dbPlayers, roomState, isProcessingAI, pc, arg, pass,
                 oracleCalls, gen, limit, supabase, otherRoomPlayers, leaving, localStorage, resolved>>

HandleVote(c, value) ==
  /\ pc[c] = "idle"
  /\ ops < limit
  /\ roomState[c].phase = VOTING
  /\ CanBroadcast(1)
  /\ ops' = ops + 1
  /\ UpsertVote(HumanVoteRow(c, value))
  /\ lastVote' = IF UpsertAccepted(c) THEN [lastVote EXCEPT ![c] = value] ELSE lastVote
  /\ UNCHANGED <<dbRoom, dbPlayers, roomState, isProcessingAI, pc, arg, pass,
                 oracleCalls, gen, limit, supabase, otherRoomPlayers, leaving, localStorage, resolved>>

\* The topic fields are shown while the local phase is SETUP (StoryPanel).
UpdateStory(c, story) ==
  /\ pc[c] = "idle"
  /\ ops < limit
  /\ roomState[c].phase = SETUP
  /\ story # roomState[c].story
  /\ CanBroadcast(1)
  /\ ops' = ops + 1
  /\ IF dbRoom.exists
       THEN /\ dbRoom' = [dbRoom EXCEPT !.story = story]
            /\ Broadcast(<<RoomUpdateEvent(dbRoom')>>)
       ELSE UNCHANGED <<dbRoom, inbox>>
  /\ UNCHANGED <<dbPlayers, dbVotes, roomState, isProcessingAI, pc, arg, pass,
                 oracleCalls, gen, limit, supabase, otherRoomPlayers, leaving, localStorage, resolved, lastVote, fresh>>

----------------------------------------------------------------------------
(* resetGame: App lines 48-51 *)

\* Next Round is shown while the local phase is REVEALED (StoryPanel). The
\* call runs updateStory up to its await, which changes nothing locally, and
\* then updatePhase(VOTING) up to its await, which updates the local state.
\* Both requests are then in flight.
ResetGameCall(c) ==
  /\ pc[c] = "idle"
  /\ ops < limit
  /\ roomState[c].phase = REVEALED
  /\ ops' = ops + 1
  /\ pc' = [pc EXCEPT ![c] = "resetGame"]
  /\ arg' = [arg EXCEPT ![c] = VOTING]
  /\ Render(c, UpdatePhaseLocal(roomState[c], VOTING), isProcessingAI[c], pass[c])
  /\ UNCHANGED <<dbRoom, dbPlayers, dbVotes, inbox, oracleCalls, gen, limit, supabase, otherRoomPlayers, leaving, localStorage, resolved, lastVote, fresh>>

\* Where updatePhase stands once the story request of resetGame has committed.
StoryCommitted ==
  [from \in {"resetGame", "resetGame_delete", "resetGame_done"} |->
     CASE from = "resetGame" -> "updatePhase_update"
       [] from = "resetGame_delete" -> "updatePhase_delete"
       [] from = "resetGame_done" -> "updatePhase_done"]

\* updateStory lines 256-259 commit, for the story of resetGame: it may
\* commit before or after the requests of updatePhase.
ResetGameStory(c) ==
  /\ pc[c] \in DOMAIN StoryCommitted
  /\ CanBroadcast(1)
  /\ IF dbRoom.exists
       THEN /\ dbRoom' = [dbRoom EXCEPT !.story = EmptyStory]
            /\ Broadcast(<<RoomUpdateEvent(dbRoom')>>)
       ELSE UNCHANGED <<dbRoom, inbox>>
  /\ pc' = [pc EXCEPT ![c] = StoryCommitted[pc[c]]]
  /\ UNCHANGED <<dbPlayers, dbVotes, roomState, isProcessingAI, arg, pass, ops,
                 oracleCalls, gen, limit, supabase, otherRoomPlayers, leaving, localStorage, resolved, lastVote, fresh>>

----------------------------------------------------------------------------
(* addAiPlayers: lines 283-302 *)

AddAiPlayersCall(c, selected) ==
  /\ pc[c] = "idle"
  /\ ops < limit
  /\ ops' = ops + 1
  /\ LET toInsert == NotIn(selected, IdsOf(roomState[c].players)) IN
       /\ arg' = [arg EXCEPT ![c] = toInsert]
       /\ pc' = [pc EXCEPT ![c] = IF toInsert = <<>> THEN "idle" ELSE "addAiPlayers_insert"]
  /\ UNCHANGED <<dbRoom, dbPlayers, dbVotes, inbox, roomState, isProcessingAI, pass,
                 oracleCalls, gen, limit, supabase, otherRoomPlayers, leaving, localStorage, resolved, lastVote, fresh>>

\* Variant of AddAiPlayersInsert: the insert is not refused.
AddAiPlayersInsertUnkeyed(c) ==
  /\ pc[c] = "addAiPlayers_insert"
  /\ CanBroadcast(1)
  /\ dbPlayers' = Append(dbPlayers, PlayerRow(Head(arg[c]), AI))
  /\ Broadcast(<<PlayerInsertEvent(PlayerRow(Head(arg[c]), AI))>>)
  /\ arg' = [arg EXCEPT ![c] = Tail(arg[c])]
  /\ pc' = [pc EXCEPT ![c] = IF Tail(arg[c]) = <<>> THEN "idle" ELSE "addAiPlayers_insert"]
  /\ UNCHANGED <<dbRoom, dbVotes, roomState, isProcessingAI, pass, ops, oracleCalls, gen, limit, supabase, otherRoomPlayers, leaving, localStorage, resolved, lastVote, fresh>>

\* lines 292-299 commit: players.insert of the next persona; the primary key
\* (players.id, whatever the room_id) refuses an id that has a row
AddAiPlayersInsert(c) ==
  /\ pc[c] = "addAiPlayers_insert"
  /\ CanBroadcast(1)
  /\ LET id == Head(arg[c]) IN
       IF dbRoom.exists /\ id \notin IdsOf(dbPlayers) \cup otherRoomPlayers
         THEN /\ dbPlayers' = Append(dbPlayers, PlayerRow(id, AI))
              /\ Broadcast(<<PlayerInsertEvent(PlayerRow(id, AI))>>)
         ELSE UNCHANGED <<dbPlayers, inbox>>
  /\ arg' = [arg EXCEPT ![c] = Tail(arg[c])]
  /\ pc' = [pc EXCEPT ![c] = IF Tail(arg[c]) = <<>> THEN "idle" ELSE "addAiPlayers_insert"]
  /\ UNCHANGED <<dbRoom, dbVotes, roomState, isProcessingAI, pass, ops, oracleCalls, gen, limit, supabase, otherRoomPlayers, leaving, localStorage, resolved, lastVote, fresh>>

----------------------------------------------------------------------------
(* triggerAiVotes: lines 304-330 *)

\* the row triggerAiVotes upserts for player id and generateAiVote's result
AiVoteRow(id, result) == VoteRow(id, toString(Num(result.points)), result.reasoning)

Bump(n) == IF n < 2 THEN n + 1 ELSE n

\* lines 312-326: one turn of the loop: the delay, generateAiVote on the
\* captured story, and the commit of the upsert
PassVote(c, env) ==
  /\ pass[c].active
  /\ pass[c].idx <= Len(pass[c].list)
  /\ CanBroadcast(1)
  /\ LET id == pass[c].list[pass[c].idx].id IN
       /\ oracleCalls' = [oracleCalls EXCEPT ![id] = Bump(oracleCalls[id])]
       /\ UpsertVote(AiVoteRow(id, generateAiVote(pass[c].story, env)))
  /\ pass' = [pass EXCEPT ![c].idx = pass[c].idx + 1]
  /\ UNCHANGED <<dbRoom, dbPlayers, roomState, isProcessingAI, pc, arg, ops, gen, limit, supabase, otherRoomPlayers, leaving, localStorage, resolved, lastVote>>

\* line 329: the last upsert has returned; setIsProcessingAI(false). An
\* unmounted hook ignores the state update.
PassEnd(c) ==
  /\ pass[c].active
  /\ pass[c].idx > Len(pass[c].list)
  /\ IF Subscribed(c)
       THEN Render(c, roomState[c], FALSE, NoPass)
       ELSE /\ pass' = [pass EXCEPT ![c] = NoPass]
            /\ UNCHANGED <<roomState, isProcessingAI>>
  /\ UNCHANGED <<dbRoom, dbPlayers, dbVotes, inbox, pc, arg, ops, oracleCalls, gen, limit, supabase, otherRoomPlayers, leaving, localStorage, resolved, lastVote, fresh>>

----------------------------------------------------------------------------
(* The hook's mount effect: lines 36-61; loadRoomData: lines 155-222;
   joinRoom: lines 224-248 *)

NoSnapshot == [room |-> NoRoom, players |-> <<>>, votes |-> EmptyMap]

\* lines 36-61: the user id is resolved, loadRoomData is called and sends its
\* first select, and the channel is subscribed. With no store client
\* loadRoomData returns at lines 156-159, and supabase.channel (line 59) is
\* a property read of null: the TypeError leaves the effect.
Open(c) ==
  /\ pc[c] = "closed"
  /\ ops < limit
  /\ ops' = ops + 1
  /\ IF supabase = "null"
       THEN /\ pc' = [pc EXCEPT ![c] = "threw"]
            /\ UNCHANGED <<arg, inbox>>
       ELSE /\ pc' = [pc EXCEPT ![c] = "loadRoom_select"]
            /\ arg' = [arg EXCEPT ![c] = NoSnapshot]
            /\ inbox' = [inbox EXCEPT ![c] = <<>>]
  /\ UNCHANGED <<dbRoom, dbPlayers, dbVotes, roomState, isProcessingAI, pass,
                 oracleCalls, gen, limit, supabase, otherRoomPlayers, leaving, localStorage, resolved, lastVote, fresh>>

\* lines 161-165 commit: rooms.select('*').eq('id', rid).maybeSingle()
LoadRoomSelect(c) ==
  /\ pc[c] = "loadRoom_select"
  /\ arg' = [arg EXCEPT ![c].room = dbRoom]
  /\ pc' = [pc EXCEPT ![c] = "loadRoom_resume"]
  /\ UNCHANGED <<dbRoom, dbPlayers, dbVotes, inbox, roomState, isProcessingAI, pass,
                 ops, oracleCalls, gen, limit, supabase, otherRoomPlayers, leaving, localStorage, resolved, lastVote, fresh>>

\* lines 168-173
LoadRoomLocal(prev, roomData) ==
  [prev EXCEPT !.story = roomData.story, !.phase = roomData.phase]

\* lines 167-182: the select has returned
LoadRoomResume(c) ==
  /\ pc[c] = "loadRoom_resume"
  /\ IF arg[c].room.exists
       THEN /\ Render(c, LoadRoomLocal(roomState[c], arg[c].room), isProcessingAI[c], pass[c])
            /\ pc' = [pc EXCEPT ![c] = "loadPlayers_select"]
       ELSE /\ pc' = [pc EXCEPT ![c] = "loadRoom_insert"]
            /\ UNCHANGED <<roomState, isProcessingAI, pass>>
  /\ UNCHANGED <<dbRoom, dbPlayers, dbVotes, inbox, arg, ops, oracleCalls, gen, limit, supabase, otherRoomPlayers, leaving, localStorage, resolved, lastVote, fresh>>

\* Variant of InsertRoom: the insert replaces a row that is there.
InsertRoomReplaces ==
  dbRoom' = RoomRow(SETUP, EmptyStory)

\* rooms.insert of a new room in SETUP; the primary key refuses an id that
\* has a row, and the error is not looked at
InsertRoom ==
  dbRoom' = IF dbRoom.exists THEN dbRoom ELSE RoomRow(SETUP, EmptyStory)

\* lines 176-181 commit
LoadRoomInsert(c) ==
  /\ pc[c] = "loadRoom_insert"
  /\ InsertRoom
  /\ pc' = [pc EXCEPT ![c] = "loadPlayers_select"]
  /\ UNCHANGED <<dbPlayers, dbVotes, inbox, roomState, isProcessingAI, arg, pass,
                 ops, oracleCalls, gen, limit, supabase, otherRoomPlayers, leaving, localStorage, resolved, lastVote, fresh>>

\* lines 184-187 commit: players.select('*').eq('room_id', rid)
LoadPlayersSelect(c) ==
  /\ pc[c] = "loadPlayers_select"
  /\ arg' = [arg EXCEPT ![c].players = dbPlayers]
  /\ pc' = [pc EXCEPT ![c] = "loadPlayers_resume"]
  /\ UNCHANGED <<dbRoom, dbPlayers, dbVotes, inbox, roomState, isProcessingAI, pass,
                 ops, oracleCalls, gen, limit, supabase, otherRoomPlayers, leaving, localStorage, resolved, lastVote, fresh>>

\* line 203
LoadPlayersLocal(prev, players) == [prev EXCEPT !.players = players]

\* lines 198-199: the user has no HUMAN row in the snapshot
MustJoin(players, userId) == userId \notin IdsOf(SeqOfType(players, HUMAN))

\* lines 189-204: the select has returned; either joinRoom is called (and
\* sends its select) or the snapshot becomes the roster
LoadPlayersResume(c) ==
  /\ pc[c] = "loadPlayers_resume"
  /\ IF MustJoin(arg[c].players, c)
       THEN /\ pc' = [pc EXCEPT ![c] = "joinRoom_room"]
            /\ UNCHANGED <<roomState, isProcessingAI, pass>>
       ELSE /\ Render(c, LoadPlayersLocal(roomState[c], arg[c].players),
                      isProcessingAI[c], pass[c])
            /\ pc' = [pc EXCEPT ![c] = "loadVotes_select"]
  /\ UNCHANGED <<dbRoom, dbPlayers, dbVotes, inbox, arg, ops, oracleCalls, gen, limit, supabase, otherRoomPlayers, leaving, localStorage, resolved, lastVote, fresh>>

\* lines 225-238 commits: the select of the room and, when it found none, the
\* insert of the room
JoinRoomRoom(c) ==
  /\ pc[c] \in {"joinRoom_room", "joinRoom_roomInsert"}
  /\ IF pc[c] = "joinRoom_room"
       THEN /\ pc' = [pc EXCEPT ![c] = IF dbRoom.exists THEN "joinRoom_insert"
                                       ELSE "joinRoom_roomInsert"]
            /\ UNCHANGED dbRoom
       ELSE /\ InsertRoom
            /\ pc' = [pc EXCEPT ![c] = "joinRoom_insert"]
  /\ UNCHANGED <<dbPlayers, dbVotes, inbox, roomState, isProcessingAI, arg, pass,
                 ops, oracleCalls, gen, limit, supabase, otherRoomPlayers, leaving, localStorage, resolved, lastVote, fresh>>

\* lines 240-247 commit: players.insert of the user's row; the primary key
\* refuses an id that has a row
JoinRoomInsert(c) ==
  /\ pc[c] = "joinRoom_insert"
  /\ CanBroadcast(1)
  /\ IF dbRoom.exists /\ c \notin IdsOf(dbPlayers)
       THEN /\ dbPlayers' = Append(dbPlayers, PlayerRow(c, HUMAN))
            /\ Broadcast(<<PlayerInsertEvent(PlayerRow(c, HUMAN))>>)
       ELSE UNCHANGED <<dbPlayers, inbox>>
  /\ pc' = [pc EXCEPT ![c] = "joinRoom_resume"]
  /\ UNCHANGED <<dbRoom, dbVotes, roomState, isProcessingAI, arg, pass, ops,
                 oracleCalls, gen, limit, supabase, otherRoomPlayers, leaving, localStorage, resolved, lastVote, fresh>>

\* line 203, after joinRoom has returned: the snapshot becomes the roster
JoinRoomResume(c) ==
  /\ pc[c] = "joinRoom_resume"
  /\ Render(c, LoadPlayersLocal(roomState[c], arg[c].players), isProcessingAI[c], pass[c])
  /\ pc' = [pc EXCEPT ![c] = "loadVotes_select"]
  /\ UNCHANGED <<dbRoom, dbPlayers, dbVotes, inbox, arg, ops, oracleCalls, gen, limit, supabase, otherRoomPlayers, leaving, localStorage, resolved, lastVote, fresh>>

\* lines 206-209 commit: votes.select('*').eq('room_id', rid)
LoadVotesSelect(c) ==
  /\ pc[c] = "loadVotes_select"
  /\ arg' = [arg EXCEPT ![c].votes = dbVotes]
  /\ pc' = [pc EXCEPT ![c] = "loadVotes_resume"]
  /\ UNCHANGED <<dbRoom, dbPlayers, dbVotes, inbox, roomState, isProcessingAI, pass,
                 ops, oracleCalls, gen, limit, supabase, otherRoomPlayers, leaving, localStorage, resolved, lastVote, fresh>>

\* lines 211-220
LoadVotesLocal(prev, votesData) ==
  [prev EXCEPT !.votes = [id \in DOMAIN votesData |-> LocalVote(votesData[id])]]

\* lines 211-221: the select has returned and loadRoomData ends
LoadVotesResume(c) ==
  /\ pc[c] = "loadVotes_resume"
  /\ Render(c, LoadVotesLocal(roomState[c], arg[c].votes), isProcessingAI[c], pass[c])
  /\ pc' = [pc EXCEPT ![c] = "idle"]
  /\ arg' = [arg EXCEPT ![c] = <<>>]
  /\ UNCHANGED <<dbRoom, dbPlayers, dbVotes, inbox, ops, oracleCalls, gen, limit, supabase, otherRoomPlayers, leaving, localStorage, resolved, lastVote, fresh>>

----------------------------------------------------------------------------
(* The hook's cleanup: lines 149-152, leaveRoom: lines 250-252 *)

\* Variant of Leave: the delete is not restricted to the leaving id.
LeaveDropsAi(c) ==
  /\ pc[c] = "idle"
  /\ ops < limit
  /\ ops' = ops + 1
  /\ pc' = [pc EXCEPT ![c] = "left"]
  /\ LET evs == IF c \in IdsOf(dbPlayers)
                  THEN <<PlayerDeleteEvent(c)>>
                       \o (IF c \in DOMAIN dbVotes THEN <<VoteDeleteEvent(c)>> ELSE <<>>)
                  ELSE <<>> IN
       /\ \A d \in Clients \ {c} : Subscribed(d) => Len(inbox[d]) + Len(evs) <= MaxQueue
       /\ inbox' = [d \in Clients |->
                      IF d = c THEN <<>>
                      ELSE IF Subscribed(d) THEN inbox[d] \o evs ELSE inbox[d]]
  /\ dbPlayers' = SeqFilterOut(SeqOfType(dbPlayers, HUMAN), c)
  /\ dbVotes' = Remove(dbVotes, c)
  /\ fresh' = fresh \ {c}
  /\ UNCHANGED <<dbRoom, roomState, isProcessingAI, arg, pass, oracleCalls, gen, limit, supabase, otherRoomPlayers, leaving, localStorage, resolved, lastVote>>

\* players.delete() of the user's row; the votes row that references it goes
\* with it (ON DELETE CASCADE)
Leave(c) ==
  /\ pc[c] = "idle"
  /\ ops < limit
  /\ ops' = ops + 1
  /\ pc' = [pc EXCEPT ![c] = "left"]
  /\ LET evs == IF c \in IdsOf(dbPlayers)
                  THEN <<PlayerDeleteEvent(c)>>
                       \o (IF c \in DOMAIN dbVotes THEN <<VoteDeleteEvent(c)>> ELSE <<>>)
                  ELSE <<>> IN
       /\ \A d \in Clients \ {c} : Subscribed(d) => Len(inbox[d]) + Len(evs) <= MaxQueue
       /\ inbox' = [d \in Clients |->
                      IF d = c THEN <<>>
                      ELSE IF Subscribed(d) THEN inbox[d] \o evs ELSE inbox[d]]
  /\ dbPlayers' = SeqFilterOut(dbPlayers, c)
  /\ dbVotes' = Remove(dbVotes, c)
  /\ fresh' = fresh \ {c}
  /\ UNCHANGED <<dbRoom, roomState, isProcessingAI, arg, pass, oracleCalls, gen, limit, supabase, otherRoomPlayers, leaving, localStorage, resolved, lastVote>>

----------------------------------------------------------------------------
(* Two humans in an open room *)

\* Both clients have opened the room, share the roster and have handled
\* every event; the room is in SETUP with no topic.
InitRoom ==
  LET roster == <<PlayerRow("u1", HUMAN), PlayerRow("u2", HUMAN)>> IN
  /\ dbRoom = RoomRow(SETUP, EmptyStory)
  /\ dbPlayers = roster
  /\ dbVotes = EmptyMap
  /\ inbox = [c \in Clients |-> <<>>]
  /\ roomState = [c \in Clients |-> [InitialRoomState EXCEPT !.players = roster]]
  /\ isProcessingAI = [c \in Clients |-> FALSE]
  /\ pc = [c \in Clients |-> "idle"]
  /\ arg = [c \in Clients |-> <<>>]
  /\ pass = [c \in Clients |-> NoPass]
  /\ ops = 0
  /\ limit = MaxOps
  /\ supabase = "client"
  /\ otherRoomPlayers = {}
  /\ leaving = {}
  /\ localStorage = EmptyMap
  /\ resolved = NoResolution
  /\ oracleCalls = ZeroCalls
  /\ lastVote = [c \in Clients |-> NoCard]
  /\ fresh = {}
  /\ gen = GenIdle

Next ==
  \/ \E c \in Clients : Deliver(c)
  \/ \E c \in Clients, phase \in GamePhase : UpdatePhaseCall(c, phase)
  \/ \E c \in Clients : UpdatePhaseRoom(c)
  \/ \E c \in Clients : UpdatePhaseDelete(c)
  \/ \E c \in Clients : UpdatePhaseDone(c)
  \/ \E c \in Clients, i \in DeckPicks : HandleVote(c, FIBONACCI_DECK[i])
  \/ \E c \in Clients, story \in Stories : UpdateStory(c, story)
  \/ \E c \in Clients : Leave(c)

Spec == InitRoom /\ [][Next]_vars

----------------------------------------------------------------------------
(* One human and the AI teammates *)

\* Client u1 has opened the room alone and has handled every event; u2 never
\* opens it.
InitSolo ==
  LET roster == <<PlayerRow("u1", HUMAN)>> IN
  /\ dbRoom = RoomRow(SETUP, EmptyStory)
  /\ dbPlayers = roster
  /\ dbVotes = EmptyMap
  /\ inbox = [c \in Clients |-> <<>>]
  /\ roomState = [c \in Clients |->
                    IF c = "u1" THEN [InitialRoomState EXCEPT !.players = roster]
                    ELSE InitialRoomState]
  /\ isProcessingAI = [c \in Clients |-> FALSE]
  /\ pc = [c \in Clients |-> IF c = "u1" THEN "idle" ELSE "closed"]
  /\ arg = [c \in Clients |-> <<>>]
  /\ pass = [c \in Clients |-> NoPass]
  /\ ops = 0
  /\ limit = MaxSoloOps
  /\ supabase = "client"
  /\ otherRoomPlayers = {}
  /\ leaving = {}
  /\ localStorage = EmptyMap
  /\ resolved = NoResolution
  /\ oracleCalls = ZeroCalls
  /\ lastVote = [c \in Clients |-> NoCard]
  /\ fresh = {}
  /\ gen = GenIdle

NextSolo ==
  \/ Deliver("u1")
  \/ \E phase \in GamePhase : UpdatePhaseCall("u1", phase)
  \/ UpdatePhaseRoom("u1")
  \/ UpdatePhaseDelete("u1")
  \/ UpdatePhaseDone("u1")
  \/ \E i \in DeckPicks : HandleVote("u1", FIBONACCI_DECK[i])
  \/ \E selected \in Selections : AddAiPlayersCall("u1", selected)
  \/ AddAiPlayersInsert("u1")
  \/ \E env \in PassEnvs : PassVote("u1", env)
  \/ PassEnd("u1")

SpecSolo == InitSolo /\ [][NextSolo]_vars

----------------------------------------------------------------------------
(* Two clients opening the room *)

\* No client has the room open. Either the room id is new, or the room is
\* left over from a session of u1 that ended without its cleanup, whose
\* players row is still there.
InitBoot ==
  /\ \/ dbRoom = NoRoom /\ dbPlayers = <<>>
     \/ dbRoom = RoomRow(SETUP, EmptyStory) /\ dbPlayers = <<PlayerRow("u1", HUMAN)>>
  /\ dbVotes = EmptyMap
  /\ inbox = [c \in Clients |-> <<>>]
  /\ roomState = [c \in Clients |-> InitialRoomState]
  /\ isProcessingAI = [c \in Clients |-> FALSE]
  /\ pc = [c \in Clients |-> "closed"]
  /\ arg = [c \in Clients |-> <<>>]
  /\ pass = [c \in Clients |-> NoPass]
  /\ ops = 0
  /\ limit = MaxBootOps
  /\ supabase \in {"client", "null"}
  /\ otherRoomPlayers = {}
  /\ leaving = {}
  /\ localStorage = EmptyMap
  /\ resolved = NoResolution
  /\ oracleCalls = ZeroCalls
  /\ lastVote = [c \in Clients |-> NoCard]
  /\ fresh = {}
  /\ gen = GenIdle

NextBoot ==
  \/ \E c \in Clients : Open(c)
  \/ \E c \in Clients : LoadRoomSelect(c)
  \/ \E c \in Clients : LoadRoomResume(c)
  \/ \E c \in Clients : LoadRoomInsert(c)
  \/ \E c \in Clients : LoadPlayersSelect(c)
  \/ \E c \in Clients : LoadPlayersResume(c)
  \/ \E c \in Clients : JoinRoomRoom(c)
  \/ \E c \in Clients : JoinRoomInsert(c)
  \/ \E c \in Clients : JoinRoomResume(c)
  \/ \E c \in Clients : LoadVotesSelect(c)
  \/ \E c \in Clients : LoadVotesResume(c)
  \/ \E c \in Clients : Deliver(c)
  \/ \E c \in Clients, phase \in GamePhase : UpdatePhaseCall(c, phase)
  \/ \E c \in Clients : UpdatePhaseRoom(c)
  \/ \E c \in Clients : UpdatePhaseDelete(c)
  \/ \E c \in Clients : UpdatePhaseDone(c)
  \/ \E c \in Clients, i \in DeckPicks : HandleVote(c, FIBONACCI_DECK[i])
  \/ \E c \in Clients, story \in Stories : UpdateStory(c, story)

SpecBoot == InitBoot /\ [][NextBoot]_vars

----------------------------------------------------------------------------
(* The scenario of one human and three AI teammates through two rounds *)

Script ==
  <<"addAiPlayers", "updatePhase(VOTING)", "handleVote(5)", "updatePhase(REVEALED)",
    "updatePhase(VOTING)">>

Scripted(call) == ops < Len(Script) /\ Script[ops + 1] = call

InitScenario ==
  LET roster == <<PlayerRow("u1", HUMAN)>> IN
  /\ dbRoom = RoomRow(SETUP, EmptyStory)
  /\ dbPlayers = roster
  /\ dbVotes = EmptyMap
  /\ inbox = [c \in Clients |-> <<>>]
  /\ roomState = [c \in Clients |->
                    IF c = "u1" THEN [InitialRoomState EXCEPT !.players = roster]
                    ELSE InitialRoomState]
  /\ isProcessingAI = [c \in Clients |-> FALSE]
  /\ pc = [c \in Clients |-> IF c = "u1" THEN "idle" ELSE "closed"]
  /\ arg = [c \in Clients |-> <<>>]
  /\ pass = [c \in Clients |-> NoPass]
  /\ ops = 0
  /\ limit = Len(Script)
  /\ supabase = "client"
  /\ otherRoomPlayers = {}
  /\ leaving = {}
  /\ localStorage = EmptyMap
  /\ resolved = NoResolution
  /\ oracleCalls = ZeroCalls
  /\ lastVote = [c \in Clients |-> NoCard]
  /\ fresh = {}
  /\ gen = GenIdle

NextScenario ==
  \/ Deliver("u1")
  \/ Scripted("addAiPlayers") /\ \E selected \in Selections : AddAiPlayersCall("u1", selected)
  \/ AddAiPlayersInsert("u1")
  \/ Scripted("updatePhase(VOTING)") /\ UpdatePhaseCall("u1", VOTING)
  \/ Scripted("updatePhase(REVEALED)") /\ UpdatePhaseCall("u1", REVEALED)
  \/ UpdatePhaseRoom("u1")
  \/ UpdatePhaseDelete("u1")
  \/ UpdatePhaseDone("u1")
  \/ Scripted("handleVote(5)") /\ HandleVote("u1", Num(5))
  \/ \E env \in PassEnvs : PassVote("u1", env)
  \/ PassEnd("u1")

SpecScenario == InitScenario /\ [][NextScenario]_vars

----------------------------------------------------------------------------
(* One human and three AI teammates through a round on a topic and Next Round *)

TopicA == [title |-> <<"a">>, description |-> <<>>]

NextRoundScript ==
  <<"updateStory", "addAiPlayers", "updatePhase(VOTING)", "handleVote(5)",
    "updatePhase(REVEALED)", "resetGame">>

NextRoundScripted(call) == ops < Len(NextRoundScript) /\ NextRoundScript[ops + 1] = call

InitNextRound ==
  LET roster == <<PlayerRow("u1", HUMAN)>> IN
  /\ dbRoom = RoomRow(SETUP, EmptyStory)
  /\ dbPlayers = roster
  /\ dbVotes = EmptyMap
  /\ inbox = [c \in Clients |-> <<>>]
  /\ roomState = [c \in Clients |->
                    IF c = "u1" THEN [InitialRoomState EXCEPT !.players = roster]
                    ELSE InitialRoomState]
  /\ isProcessingAI = [c \in Clients |-> FALSE]
  /\ pc = [c \in Clients |-> IF c = "u1" THEN "idle" ELSE "closed"]
  /\ arg = [c \in Clients |-> <<>>]
  /\ pass = [c \in Clients |-> NoPass]
  /\ ops = 0
  /\ limit = Len(NextRoundScript)
  /\ supabase = "client"
  /\ otherRoomPlayers = {}
  /\ leaving = {}
  /\ localStorage = EmptyMap
  /\ resolved = NoResolution
  /\ oracleCalls = ZeroCalls
  /\ lastVote = [c \in Clients |-> NoCard]
  /\ fresh = {}
  /\ gen = GenIdle

NextNextRound ==
  \/ Deliver("u1")
  \/ NextRoundScripted("updateStory") /\ UpdateStory("u1", TopicA)
  \/ NextRoundScripted("addAiPlayers") /\ \E selected \in Selections : AddAiPlayersCall("u1", selected)
  \/ AddAiPlayersInsert("u1")
  \/ NextRoundScripted("updatePhase(VOTING)") /\ UpdatePhaseCall("u1", VOTING)
  \/ NextRoundScripted("updatePhase(REVEALED)") /\ UpdatePhaseCall("u1", REVEALED)
  \/ NextRoundScripted("resetGame") /\ ResetGameCall("u1")
  \/ ResetGameStory("u1")
  \/ UpdatePhaseRoom("u1")
  \/ UpdatePhaseDelete("u1")
  \/ UpdatePhaseDone("u1")
  \/ NextRoundScripted("handleVote(5)") /\ HandleVote("u1", Num(5))
  \/ \E env \in PassEnvs : PassVote("u1", env)
  \/ PassEnd("u1")

SpecNextRound == InitNextRound /\ [][NextNextRound]_vars

----------------------------------------------------------------------------
(* A second client opens the room while the first adds the AI teammates and
   then leaves *)

HandoverScript == <<"open", "addAiPlayers", "leave", "updatePhase(VOTING)">>

\* The three personas the shuffle of addAiPlayers leaves first in this run.
HandoverSelection == <<AI_PERSONAS[1], AI_PERSONAS[2], AI_PERSONAS[3]>>

HandoverScripted(call) == ops < Len(HandoverScript) /\ HandoverScript[ops + 1] = call

\* Client u1 has opened the room alone and has handled every event; u2 has
\* not opened it.
InitHandover ==
  LET roster == <<PlayerRow("u1", HUMAN)>> IN
  /\ dbRoom = RoomRow(SETUP, EmptyStory)
  /\ dbPlayers = roster
  /\ dbVotes = EmptyMap
  /\ inbox = [c \in Clients |-> <<>>]
  /\ roomState = [c \in Clients |->
                    IF c = "u1" THEN [InitialRoomState EXCEPT !.players = roster]
                    ELSE InitialRoomState]
  /\ isProcessingAI = [c \in Clients |-> FALSE]
  /\ pc = [c \in Clients |-> IF c = "u1" THEN "idle" ELSE "closed"]
  /\ arg = [c \in Clients |-> <<>>]
  /\ pass = [c \in Clients |-> NoPass]
  /\ ops = 0
  /\ limit = Len(HandoverScript)
  /\ supabase = "client"
  /\ otherRoomPlayers = {}
  /\ leaving = {}
  /\ localStorage = EmptyMap
  /\ resolved = NoResolution
  /\ oracleCalls = ZeroCalls
  /\ lastVote = [c \in Clients |-> NoCard]
  /\ fresh = {}
  /\ gen = GenIdle

NextHandover ==
  \/ HandoverScripted("open") /\ Open("u2")
  \/ LoadRoomSelect("u2")
  \/ LoadRoomResume("u2")
  \/ LoadPlayersSelect("u2")
  \/ LoadPlayersResume("u2")
  \/ JoinRoomRoom("u2")
  \/ JoinRoomInsert("u2")
  \/ JoinRoomResume("u2")
  \/ LoadVotesSelect("u2")
  \/ LoadVotesResume("u2")
  \/ HandoverScripted("addAiPlayers") /\ AddAiPlayersCall("u1", HandoverSelection)
  \/ AddAiPlayersInsert("u1")
  \/ HandoverScripted("leave") /\ Leave("u1")
  \/ HandoverScripted("updatePhase(VOTING)") /\ UpdatePhaseCall("u2", VOTING)
  \/ UpdatePhaseRoom("u2")
  \/ UpdatePhaseDelete("u2")
  \/ UpdatePhaseDone("u2")
  \/ \E c \in Clients : Deliver(c)
  \/ \E env \in PassEnvs : PassVote("u2", env)
  \/ PassEnd("u2")

SpecHandover == InitHandover /\ [][NextHandover]_vars

----------------------------------------------------------------------------
(* Two humans through a round, its reveal and Re-vote, and a second reveal *)

RestartScript ==
  <<<<"u1", "updatePhase(VOTING)">>, <<"u1", "handleVote">>, <<"u2", "handleVote">>,
    <<"u2", "updatePhase(REVEALED)">>, <<"u2", "updatePhase(VOTING)">>,
    <<"u1", "updatePhase(REVEALED)">>>>

RestartScripted(c, call) ==
  ops < Len(RestartScript) /\ RestartScript[ops + 1] = <<c, call>>

\* The state of InitRoom, with the calls of RestartScript to come.
InitRestart ==
  LET roster == <<PlayerRow("u1", HUMAN), PlayerRow("u2", HUMAN)>> IN
  /\ dbRoom = RoomRow(SETUP, EmptyStory)
  /\ dbPlayers = roster
  /\ dbVotes = EmptyMap
  /\ inbox = [c \in Clients |-> <<>>]
  /\ roomState = [c \in Clients |-> [InitialRoomState EXCEPT !.players = roster]]
  /\ isProcessingAI = [c \in Clients |-> FALSE]
  /\ pc = [c \in Clients |-> "idle"]
  /\ arg = [c \in Clients |-> <<>>]
  /\ pass = [c \in Clients |-> NoPass]
  /\ ops = 0
  /\ limit = Len(RestartScript)
  /\ supabase = "client"
  /\ otherRoomPlayers = {}
  /\ leaving = {}
  /\ localStorage = EmptyMap
  /\ resolved = NoResolution
  /\ oracleCalls = ZeroCalls
  /\ lastVote = [c \in Clients |-> NoCard]
  /\ fresh = {}
  /\ gen = GenIdle

NextRestart ==
  \/ \E c \in Clients : Deliver(c)
  \/ \E c \in Clients : RestartScripted(c, "updatePhase(VOTING)") /\ UpdatePhaseCall(c, VOTING)
  \/ \E c \in Clients : RestartScripted(c, "updatePhase(REVEALED)") /\ UpdatePhaseCall(c, REVEALED)
  \/ \E c \in Clients : UpdatePhaseRoom(c)
  \/ \E c \in Clients : UpdatePhaseDelete(c)
  \/ \E c \in Clients : UpdatePhaseDone(c)
  \/ \E c \in Clients, i \in DeckPicks :
       RestartScripted(c, "handleVote") /\ HandleVote(c, FIBONACCI_DECK[i])

SpecRestart == InitRestart /\ [][NextRestart]_vars

----------------------------------------------------------------------------
(* Two humans adding AI teammates *)

\* The state of InitRoom.
InitAddAi == InitRoom

NextAddAi ==
  \/ \E c \in Clients : Deliver(c)
  \/ \E c \in Clients, selected \in Selections : AddAiPlayersCall(c, selected)
  \/ \E c \in Clients : AddAiPlayersInsert(c)

SpecAddAi == InitAddAi /\ [][NextAddAi]_vars

----------------------------------------------------------------------------
(* Two rooms in one players table *)

\* lines 292-299 in a client of another room: players.insert of persona id
\* with that room's room_id; the primary key refuses an id that has a row.
\* The event goes to the subscribers of that room.
OtherRoomInsert(id) ==
  /\ IF id \notin IdsOf(dbPlayers) \cup otherRoomPlayers
       THEN otherRoomPlayers' = otherRoomPlayers \cup {id}
       ELSE UNCHANGED otherRoomPlayers
  /\ UNCHANGED <<dbRoom, dbPlayers, dbVotes, inbox, roomState, isProcessingAI, pc, arg,
                 pass, ops, limit, oracleCalls, lastVote, fresh, gen, supabase, leaving,
                 localStorage, resolved>>

\* The state of InitRoom; the other room has no participants yet.
InitRooms == InitRoom

NextRooms ==
  \/ \E id \in AiIds : OtherRoomInsert(id)
  \/ \E c \in Clients : Deliver(c)
  \/ \E c \in Clients, selected \in Selections : AddAiPlayersCall(c, selected)
  \/ \E c \in Clients : AddAiPlayersInsert(c)

SpecRooms == InitRooms /\ [][NextRooms]_vars

----------------------------------------------------------------------------
(* The effect runs again while the hook stays mounted *)

\* lines 36-61 and 149-152: a dependency of the effect changes. The cleanup
\* of the run before unsubscribes and calls leaveRoom, which sends its delete
\* and is not awaited; the new run calls loadRoomData, which sends its first
\* select, and subscribes. The hook's state is kept.
Rerun(c) ==
  /\ pc[c] = "idle"
  /\ c \notin leaving
  /\ ops < limit
  /\ ops' = ops + 1
  /\ leaving' = leaving \cup {c}
  /\ pc' = [pc EXCEPT ![c] = "loadRoom_select"]
  /\ arg' = [arg EXCEPT ![c] = NoSnapshot]
  /\ inbox' = [inbox EXCEPT ![c] = <<>>]
  /\ UNCHANGED <<dbRoom, dbPlayers, dbVotes, roomState, isProcessingAI, pass,
                 oracleCalls, gen, limit, supabase, otherRoomPlayers, lastVote, fresh,
                 localStorage, resolved>>

\* line 251 commit, for the delete a cleanup sent: players.delete() of the
\* user's row; the votes row that references it goes with it.
LeaveCommit(c) ==
  /\ c \in leaving
  /\ leaving' = leaving \ {c}
  /\ LET evs == IF c \in IdsOf(dbPlayers)
                  THEN <<PlayerDeleteEvent(c)>>
                       \o (IF c \in DOMAIN dbVotes THEN <<VoteDeleteEvent(c)>> ELSE <<>>)
                  ELSE <<>> IN
       /\ CanBroadcast(Len(evs))
       /\ Broadcast(evs)
  /\ dbPlayers' = SeqFilterOut(dbPlayers, c)
  /\ dbVotes' = Remove(dbVotes, c)
  /\ fresh' = fresh \ {c}
  /\ UNCHANGED <<dbRoom, roomState, isProcessingAI, pc, arg, pass, ops, oracleCalls,
                 gen, limit, supabase, otherRoomPlayers, lastVote, localStorage, resolved>>

\* The state of InitRoom.
InitRerun == InitRoom

NextRerun ==
  \/ \E c \in Clients : Rerun(c)
  \/ \E c \in Clients : LeaveCommit(c)
  \/ \E c \in Clients : LoadRoomSelect(c)
  \/ \E c \in Clients : LoadRoomResume(c)
  \/ \E c \in Clients : LoadPlayersSelect(c)
  \/ \E c \in Clients : LoadPlayersResume(c)
  \/ \E c \in Clients : JoinRoomRoom(c)
  \/ \E c \in Clients : JoinRoomInsert(c)
  \/ \E c \in Clients : JoinRoomResume(c)
  \/ \E c \in Clients : LoadVotesSelect(c)
  \/ \E c \in Clients : LoadVotesResume(c)
  \/ \E c \in Clients : Deliver(c)

SpecRerun == InitRerun /\ [][NextRerun]_vars

----------------------------------------------------------------------------
(* The user id of a room: lines 39-44, and lib/utils generateId *)

\* The room ids of the model.
RoomIds == {<<"r", "1">>, <<"r", "2">>}

\* Math.random().toString(36) in the model: of Math.random() = 0, and of two
\* values above 0.
RandomStrings == {<<"0">>, <<"0", ".", "a", "b">>, <<"0", ".", "c">>}

\* String.prototype.substring(start, end), 0-based, end exclusive
substring(str, start, end) ==
  SubSeq(str, start + 1, IF end < Len(str) THEN end ELSE Len(str))

\* lib/utils generateId, for a given Math.random().toString(36)
generateId(random36) == substring(random36, 2, 15)

\* `poker_user_id_${roomId}`
StorageKey(roomId) ==
  <<"p", "o", "k", "e", "r", "_", "u", "s", "e", "r", "_", "i", "d", "_">> \o roomId

\* localStorage.getItem(key)
getItem(key) == IF key \in DOMAIN localStorage THEN localStorage[key] ELSE NoItem

\* lines 40-44 for the room roomId, with generateId drawing random36 when it
\* is called. !userId holds of null and of the empty string.
ResolveUserId(roomId, random36) ==
  /\ ops < limit
  /\ ops' = ops + 1
  /\ LET userId == getItem(StorageKey(roomId)) IN
       IF userId = NoItem \/ userId = <<>>
         THEN /\ localStorage' = Put(localStorage, StorageKey(roomId), generateId(random36))
              /\ resolved' = [roomId |-> roomId, userId |-> generateId(random36),
                              generated |-> TRUE]
         ELSE /\ UNCHANGED localStorage
              /\ resolved' = [roomId |-> roomId, userId |-> userId, generated |-> FALSE]
  /\ UNCHANGED <<dbRoom, dbPlayers, dbVotes, inbox, roomState, isProcessingAI, pc, arg,
                 pass, limit, oracleCalls, lastVote, fresh, gen, supabase,
                 otherRoomPlayers, leaving>>

\* The state of InitRoom; nothing is stored yet.
InitIdentity == InitRoom

NextIdentity == \E roomId \in RoomIds, random36 \in RandomStrings : ResolveUserId(roomId, random36)

SpecIdentity == InitIdentity /\ [][NextIdentity]_vars

----------------------------------------------------------------------------
(* generateAiVote on its own *)

\* The titles and descriptions tried.
Texts == {<<>>, <<" ">>, <<"\t", "\n">>, <<"a">>, <<" ", "a", " ">>}

\* The oracle's numeric answers tried run from -OracleSpan to 21 + OracleSpan
\* in steps of one half.
OracleSpan == 4

Responses ==
  {[kind |-> k, points |-> Undefined, reasoning |-> ""] :
     k \in {"throw", "notext", "badjson", "null"}}
  \cup {[kind |-> "object", points |-> Points(h), reasoning |-> "oracle"] :
          h \in (0 - 2 * OracleSpan)..(2 * (validPoints[Len(validPoints)] + OracleSpan))}
  \cup {[kind |-> "object", points |-> Undefined, reasoning |-> "oracle"]}

\* Math.floor(Math.random() * cards.length) is 0 .. cards.length - 1; the
\* runs use the first, the last and one between.
Randoms == {0, 3, Len(validPoints) - 1}

\* A response matters with a client, a random pick without a topic; the runs
\* vary one of the two at a time.
OracleEnvs ==
  {[aiClient |-> a, apiKey |-> key, ctorThrows |-> t, rand |-> 0, resp |-> r] :
     a \in BOOLEAN, key \in BOOLEAN, t \in BOOLEAN, r \in Responses}
  \cup {[aiClient |-> a, apiKey |-> a, ctorThrows |-> FALSE, rand |-> n,
         resp |-> [kind |-> "throw", points |-> Undefined, reasoning |-> ""]] :
          a \in BOOLEAN, n \in Randoms}

NoResult ==
  [settled |-> "pending", points |-> 0, reasoning |-> "", consulted |-> FALSE,
   requested |-> FALSE]

InitOracle ==
  /\ dbRoom = NoRoom
  /\ dbPlayers = <<>>
  /\ dbVotes = EmptyMap
  /\ inbox = [c \in Clients |-> <<>>]
  /\ roomState = [c \in Clients |-> InitialRoomState]
  /\ isProcessingAI = [c \in Clients |-> FALSE]
  /\ pc = [c \in Clients |-> "closed"]
  /\ arg = [c \in Clients |-> <<>>]
  /\ pass = [c \in Clients |-> NoPass]
  /\ ops = 0
  /\ limit = 0
  /\ supabase = "client"
  /\ otherRoomPlayers = {}
  /\ leaving = {}
  /\ localStorage = EmptyMap
  /\ resolved = NoResolution
  /\ oracleCalls = ZeroCalls
  /\ lastVote = [c \in Clients |-> NoCard]
  /\ fresh = {}
  /\ gen \in {[stage |-> "called", story |-> [title |-> t, description |-> d],
               env |-> e, result |-> NoResult] :
                t \in Texts, d \in Texts, e \in OracleEnvs}

\* The promise of generateAiVote settles.
GenerateAiVoteSettles ==
  /\ gen.stage = "called"
  /\ gen' = [gen EXCEPT !.stage = "settled",
                        !.result = generateAiVote(gen.story, gen.env)]
  /\ UNCHANGED <<dbRoom, dbPlayers, dbVotes, inbox, roomState, isProcessingAI, pc, arg,
                 pass, ops, limit, supabase, otherRoomPlayers, leaving, localStorage, resolved, oracleCalls, lastVote, fresh>>

NextOracle == GenerateAiVoteSettles

SpecOracle == InitOracle /\ [][NextOracle]_vars

----------------------------------------------------------------------------
(* Properties of the open room (Spec, SpecSolo, SpecBoot) *)

\* Client c has no vote event of player p waiting in its feed.
NoVoteEventPending(c, p) ==
  \A i \in 1..Len(inbox[c]) :
    ~(inbox[c][i].tbl = "votes" /\ inbox[c][i].row.player_id = p)

\* C1 (clear-on-start): at the moment a client's updatePhase(VOTING) completes
\* (its local clear, its room update and its bulk delete are done), that
\* client's local estimate map is empty and the store holds no votes row of
\* the room, whatever was delivered or voted while the call was in progress.
C1_ClearOnStart ==
  \A c \in Clients :
    pc[c] = "updatePhase_done" =>
      /\ roomState[c].votes = EmptyMap
      /\ dbVotes = EmptyMap

\* C2 (vote round-trip and upsert): once the change event of a participant's
\* latest accepted vote has been applied by a client, that client's estimate
\* map holds for the participant the value that was cast, equal (===) to the
\* deck card, and the store holds the same single entry.
C2_VoteRoundTrip ==
  \A c \in Clients, p \in Clients :
    (/\ Subscribed(c)
     /\ p \in DOMAIN roomState[c].votes
     /\ p \in DOMAIN dbVotes
     /\ NoVoteEventPending(c, p))
    => /\ roomState[c].votes[p].value = lastVote[p]
       /\ dbVotes[p].value = lastVote[p]

\* C4 (exactly-once simulated voting): in every round no simulated
\* participant gets more than one oracle request and estimate write.
C4_ExactlyOncePerRound ==
  \A p \in AiIds : oracleCalls[p] <= 1

\* The roster ids of a projection that have an entry in its estimate map.
VotedRosterIds(rs) == IdsOf(rs.players) \cap DOMAIN rs.votes

Quiescent ==
  \A c \in Clients :
    /\ pc[c] \in {"idle", "closed", "left"}
    /\ inbox[c] = <<>>
    /\ ~pass[c].active

\* C6 (convergence): when no operation is in progress and every change event
\* has been delivered, each subscribed client's phase, topic, set of roster
\* ids and estimate map equal the store's rows of the room.
C6_Convergence ==
  Quiescent =>
    \A c \in Clients :
      Subscribed(c) =>
        /\ roomState[c].phase = dbRoom.phase
        /\ roomState[c].story = dbRoom.story
        /\ IdsOf(roomState[c].players) = IdsOf(dbPlayers)
        /\ roomState[c].votes = [id \in DOMAIN dbVotes |-> LocalVote(dbVotes[id])]

\* Client c handles the players DELETE event at the head of its feed in this
\* step.
DeliversPlayerDelete(c) ==
  /\ Subscribed(c)
  /\ inbox[c] # <<>>
  /\ Head(inbox[c]).tbl = "players"
  /\ Head(inbox[c]).ev = "DELETE"
  /\ inbox'[c] = Tail(inbox[c])
  /\ pc'[c] = pc[c]

\* C10 (referential cleanup): handling a players DELETE event for id p takes
\* p out of the client's roster and takes the estimate of p out of its map,
\* and leaves the other roster entries in their order, the other estimates,
\* the phase and the topic as they were.
C10_ReferentialCleanup ==
  [][\A c \in Clients :
       DeliversPlayerDelete(c) =>
         LET p == Head(inbox[c]).row.id
             before == roomState[c]
             after == roomState'[c] IN
         /\ p \notin IdsOf(after.players)
         /\ p \notin DOMAIN after.votes
         /\ after.players = SelectSeq(before.players, LAMBDA r : r.id # p)
         /\ DOMAIN after.votes = DOMAIN before.votes \ {p}
         /\ \A q \in DOMAIN after.votes : after.votes[q] = before.votes[q]
         /\ after.phase = before.phase
         /\ after.story = before.story]_vars

\* C10 witness: a client that holds its own estimate has handled the players
\* DELETE event of a participant who left with an estimate (the DELETE of that
\* participant's votes row is still to come), and holds neither the
\* participant nor the participant's estimate.
C10_Witness ==
  \E c \in Clients, p \in Clients :
    /\ pc[p] = "left"
    /\ Subscribed(c)
    /\ inbox[c] # <<>>
    /\ Head(inbox[c]) = VoteDeleteEvent(p)
    /\ p \notin IdsOf(roomState[c].players)
    /\ p \notin DOMAIN roomState[c].votes
    /\ c \in DOMAIN roomState[c].votes

----------------------------------------------------------------------------
(* Properties of the scenario (SpecScenario) *)

\* The ids of the AI rows of the store's roster.
AiInStore == IdsOf(SeqOfType(dbPlayers, AI))

\* The scripted call number n is made in this step.
Calls(n) == ops = n - 1 /\ ops' = n

\* addAiPlayers has returned: the store's roster is A and three distinct AI
\* participants; and once their events are handled, so is the local roster.
ScenarioRosterGrown ==
  (ops >= 1 /\ pc["u1"] # "addAiPlayers_insert") =>
    /\ Len(dbPlayers) = 4
    /\ dbPlayers[1] = PlayerRow("u1", HUMAN)
    /\ Cardinality(AiInStore) = 3
    /\ (\A i \in 1..Len(inbox["u1"]) : inbox["u1"][i].tbl # "players")
         => roomState["u1"].players = dbPlayers

\* A's vote has been applied while an AI participant has no estimate yet:
\* allVoted is false.
ScenarioStillPending ==
  (/\ ops = 3
   /\ "u1" \in DOMAIN roomState["u1"].votes
   /\ \E p \in AiInStore : p \notin DOMAIN roomState["u1"].votes)
  => ~allVoted(roomState["u1"])

\* After A's vote, with the passes over and every event applied: the four
\* participants have an estimate and allVoted is true.
ScenarioAllIn ==
  (ops = 3 /\ Quiescent) =>
    /\ DOMAIN roomState["u1"].votes = {"u1"} \cup AiInStore
    /\ Cardinality(DOMAIN roomState["u1"].votes) = 4
    /\ roomState["u1"].votes["u1"].value = toString(Num(5))
    /\ allVoted(roomState["u1"])

\* After updatePhase(REVEALED), with every event applied: the phase is
\* REVEALED in the store and locally and the four estimates are there.
ScenarioRevealed ==
  (ops = 4 /\ Quiescent) =>
    /\ dbRoom.phase = REVEALED
    /\ roomState["u1"].phase = REVEALED
    /\ DOMAIN roomState["u1"].votes = {"u1"} \cup AiInStore
    /\ DOMAIN dbVotes = {"u1"} \cup AiInStore

\* What the calls of updatePhase do when they are made and when their room
\* update commits.
ScenarioPhaseCalls ==
  /\ (Calls(2) \/ Calls(5)) =>
       /\ roomState'["u1"].phase = VOTING
       /\ roomState'["u1"].votes = EmptyMap
       /\ ~allVoted(roomState'["u1"])
  /\ Calls(4) =>
       /\ roomState'["u1"].phase = REVEALED
       /\ roomState'["u1"].votes = roomState["u1"].votes
       /\ dbVotes' = dbVotes
  /\ (pc["u1"] = "updatePhase_update" /\ pc'["u1"] = "idle") =>
       /\ dbRoom'.phase = REVEALED
       /\ roomState'["u1"].votes = roomState["u1"].votes
       /\ dbVotes' = dbVotes

\* C5 (end-to-end round with a single client): from roster [A], addAiPlayers
\* adds exactly three AI participants; updatePhase(VOTING) gives an empty
\* estimate map and allVoted false; after A votes 5 allVoted stays false while
\* an AI participant is pending; once the passes are over and their events
\* applied all four have an estimate and allVoted is true;
\* updatePhase(REVEALED) changes the phase and keeps the estimate map; a
\* further updatePhase(VOTING) empties the estimate map again.
C5_RoundScenario ==
  /\ [](ScenarioRosterGrown /\ ScenarioStillPending /\ ScenarioAllIn /\ ScenarioRevealed)
  /\ [][ScenarioPhaseCalls]_vars

\* C5 witness: the five calls have been made, the second round's passes are
\* over and every event is applied: the phase is VOTING and the estimate map
\* holds the estimates of the three AI participants only.
C5_Witness ==
  /\ ops = 5
  /\ Quiescent
  /\ roomState["u1"].phase = VOTING
  /\ Cardinality(AiInStore) = 3
  /\ DOMAIN roomState["u1"].votes = AiInStore

----------------------------------------------------------------------------
(* Properties of generateAiVote (SpecOracle) *)

Scale == {validPoints[i] : i \in 1..Len(validPoints)}

\* Twice the distance of scale member m to the oracle's number h / 2.
Distance(m, h) == IF 2 * m >= h THEN 2 * m - h ELSE h - 2 * m

WhitespaceOnly(text) == \A i \in 1..Len(text) : text[i] \in Whitespace

HasTopic == ~WhitespaceOnly(gen.story.title) \/ ~WhitespaceOnly(gen.story.description)

\* The call reached the oracle, which answered with a payload whose points
\* is a number.
NumericAnswer ==
  /\ gen.stage = "settled"
  /\ gen.result.requested
  /\ gen.env.resp.kind = "object"
  /\ gen.env.resp.points.defined

\* C7 (oracle snapping): for a numeric oracle output the points returned are
\* the member of 1, 2, 3, 5, 8, 13, 21 nearest to it, the earlier member on a
\* tie (10 gives 8, 4 gives 3, below 1 gives 1, above 21 gives 21), and a
\* member of the scale is returned as it is; whatever the call meets, the
\* points returned are a member of the scale.
C7_OracleSnapping ==
  /\ gen.stage = "settled" => gen.result.points \in Scale
  /\ NumericAnswer =>
       LET h == gen.env.resp.points.h
           r == gen.result.points IN
       /\ \E i \in 1..Len(validPoints) :
            /\ validPoints[i] = r
            /\ \A j \in 1..Len(validPoints) :
                 /\ Distance(validPoints[j], h) >= Distance(r, h)
                 /\ Distance(validPoints[j], h) = Distance(r, h) => i <= j
       /\ h = 20 => r = 8
       /\ h = 8 => r = 3
       /\ h < 2 => r = 1
       /\ h > 42 => r = 21
       /\ h \in {2 * m : m \in Scale} => 2 * r = h

\* C7 witness: the oracle answered 4, which is as far from 3 as from 5, and 3
\* was returned.
C7_Witness ==
  /\ NumericAnswer
  /\ gen.env.resp.points.h = 8
  /\ gen.result.points = 3

\* C8 (no-context fast path): when title and description are empty or
\* whitespace only, generateAiVote sends nothing to the oracle, does not call
\* getClient, and resolves with a member of the scale and the no-context
\* rationale, whether or not the oracle is configured.
C8_NoContextFastPath ==
  (gen.stage = "settled" /\ ~HasTopic) =>
    /\ ~gen.result.requested
    /\ ~gen.result.consulted
    /\ gen.result.settled = "resolved"
    /\ gen.result.points \in Scale
    /\ gen.result.reasoning = NoContext

\* C8 witness: a call with a blank title and a description of a tab and a
\* newline, with a client at hand, has settled with the no-context rationale.
C8_Witness ==
  /\ gen.stage = "settled"
  /\ gen.story.title = <<" ">>
  /\ gen.story.description = <<"\t", "\n">>
  /\ gen.env.aiClient
  /\ gen.result.reasoning = NoContext
  /\ ~gen.result.consulted

\* No client is cached and none can be made: no key, or the constructor
\* throws.
Unconfigured == ~gen.env.aiClient /\ (~gen.env.apiKey \/ gen.env.ctorThrows)

\* C9 (the oracle adapter never fails): with a topic, when the oracle is not
\* configured, when the call throws, when the response has no text and when
\* the text does not parse, generateAiVote resolves with 8 points and a
\* fallback rationale; and no outcome makes the promise reject.
C9_NeverRejects ==
  /\ gen.stage = "settled" => gen.result.settled = "resolved"
  /\ (/\ gen.stage = "settled"
      /\ HasTopic
      /\ Unconfigured \/ gen.env.resp.kind \in {"throw", "notext", "badjson"})
     => /\ gen.result.settled = "resolved"
        /\ gen.result.points = 8
        /\ gen.result.reasoning \in {Offline, Trouble}
        /\ Unconfigured <=> gen.result.reasoning = Offline

\* C9 witness: with a topic and a client, the oracle's text did not parse and
\* the call resolved with 8 points and the rationale of the catch block.
C9_Witness ==
  /\ gen.stage = "settled"
  /\ gen.story.title = <<"a">>
  /\ gen.env.aiClient
  /\ gen.env.resp.kind = "badjson"
  /\ gen.result.settled = "resolved"
  /\ gen.result.points = 8
  /\ gen.result.reasoning = Trouble

----------------------------------------------------------------------------
(* Properties of concurrent phase changes and votes (Spec, SpecSolo) *)

LegalEdges == {<<SETUP, VOTING>>, <<VOTING, REVEALED>>, <<REVEALED, VOTING>>}

\* The rooms update of client c's updatePhase commits in this step.
CommitsPhase(c) == pc[c] = "updatePhase_update" /\ pc'[c] # "updatePhase_update"

\* C11 (legal phase edges): every write of the room's phase that commits goes
\* along SETUP -> VOTING, VOTING -> REVEALED or REVEALED -> VOTING from the
\* phase the store holds; no VOTING is written over VOTING and no REVEALED
\* over REVEALED, whatever the clients' local views.
C11_LegalPhaseEdges ==
  [][\A c \in Clients :
       CommitsPhase(c) => <<dbRoom.phase, arg[c]>> \in LegalEdges]_vars

\* C12 (bulk delete only on a transition into VOTING): a votes row written
\* after the store's phase became VOTING for a round stays in the store until
\* the store's phase next changes from REVEALED to VOTING or the row's
\* participant is deleted; no step of an updatePhase call removes it.
C12_DeleteOnlyOnTransition ==
  [][\A p \in fresh \cap DOMAIN dbVotes :
       \/ p \in DOMAIN dbVotes'
       \/ p \notin IdsOf(dbPlayers')
       \/ dbRoom.phase = REVEALED /\ dbRoom'.phase = VOTING]_vars

\* An upsert of a votes row of participant p commits in this step: its change
\* event joins the feed of a subscribed client.
WritesVote(p) ==
  \E c \in Clients :
    /\ Len(inbox'[c]) = Len(inbox[c]) + 1
    /\ LET e == inbox'[c][Len(inbox'[c])] IN
         /\ e.tbl = "votes"
         /\ e.ev \in {"INSERT", "UPDATE"}
         /\ e.row.player_id = p

\* C13 (estimates are created only during VOTING): no votes row is inserted
\* or replaced while the store's phase is SETUP or REVEALED, be it by a pass
\* of triggerAiVotes still in flight or by handleVote from a stale view.
C13_VotesOnlyInVoting ==
  [][\A p \in Ids : WritesVote(p) => dbRoom.phase = VOTING]_vars

----------------------------------------------------------------------------
(* Properties of a client's own writes and their echoes (SpecNextRound) *)

\* Client c handles the event e at the head of its feed in this step.
Handles(c, e) ==
  /\ Subscribed(c)
  /\ inbox[c] # <<>>
  /\ Head(inbox[c]) = e
  /\ inbox'[c] = Tail(inbox[c])
  /\ pc'[c] = pc[c]

\* The events that updateStory, updatePhase and handleVote of client c produce.
OwnEcho(c, e) ==
  \/ e.tbl = "rooms" /\ e.ev = "UPDATE"
  \/ e.tbl = "votes" /\ e.ev \in {"INSERT", "UPDATE"} /\ e.row.player_id = c

\* C14: with client u1 alone in the room, every rooms UPDATE event and every
\* upsert event of u1's own estimate is the echo of a write u1 issued, and
\* handling it leaves u1's projection as it was; so the story echo of
\* resetGame does not move the local phase away from VOTING.
C14_EchoNoOp ==
  [][inbox["u1"] # <<>> /\ Handles("u1", Head(inbox["u1"]))
       /\ OwnEcho("u1", Head(inbox["u1"])) =>
         roomState'["u1"] = roomState["u1"]]_vars

\* The call of NextRoundScript that the step makes, if it makes one.
Calling(call) == ops' = ops + 1 /\ NextRoundScript[ops + 1] = call

\* C15: each mutation shows in the caller's projection at the call, before
\* any event of its write is handled: the topic after updateStory, the phase
\* after updatePhase and resetGame, the own estimate after handleVote.
C15_OptimisticUpdate ==
  [][/\ Calling("updateStory") => roomState'["u1"].story = TopicA
     /\ Calling("updatePhase(VOTING)") => roomState'["u1"].phase = VOTING
     /\ Calling("updatePhase(REVEALED)") => roomState'["u1"].phase = REVEALED
     /\ Calling("resetGame") => roomState'["u1"].phase = VOTING
     /\ Calling("handleVote(5)") =>
          /\ "u1" \in DOMAIN roomState'["u1"].votes
          /\ roomState'["u1"].votes["u1"].value = toString(Num(5))]_vars

----------------------------------------------------------------------------
(* Properties of opening a room (SpecBoot) *)

\* No two entries of the roster seq have the same id.
DistinctIds(seq) ==
  \A i \in 1..Len(seq) : \A j \in 1..Len(seq) : seq[i].id = seq[j].id => i = j

\* C16: no client's local roster ever holds two entries with the same
\* participant id, also after an INSERT event for an id that the players
\* select of the bootstrap had already returned.
C16_RosterInsertIdempotent ==
  \A c \in Clients : DistinctIds(roomState[c].players)

\* C17: once a client's bootstrap has finished and it has handled every
\* pending event, its own id is in the store's roster and in its local
\* roster, whether the INSERT event of its own row was handled before or
\* after the bootstrap assigned the roster.
C17_JoinOnDemand ==
  \A c \in Clients :
    pc[c] = "idle" /\ inbox[c] = <<>> =>
      /\ c \in IdsOf(dbPlayers)
      /\ c \in IdsOf(roomState[c].players)

----------------------------------------------------------------------------
(* Properties of Next Round (SpecNextRound) *)

\* Client c starts a triggerAiVotes call in this step.
StartsPass(c) == pass'[c].active /\ pass'[c].idx = 1 /\ pass'[c] # pass[c]

\* C18: every triggerAiVotes call that starts at or after the resetGame call
\* captures the empty topic, so every oracle request of the new round is made
\* with the empty topic and not with the topic of the round before.
C18_NextRoundClearedTopic ==
  [][ops' = Len(NextRoundScript) /\ StartsPass("u1") =>
       pass'["u1"].story = EmptyStory]_vars

\* C19: with no store client, opening a room lets no exception out of the
\* hook, the client is not subscribed and handles nothing, and its
\* projection stays the initial one.
C19_StoreNotConfigured ==
  supabase = "null" =>
    \A c \in Clients :
      /\ pc[c] # "threw"
      /\ ~Subscribed(c)
      /\ inbox[c] = <<>>
      /\ roomState[c] = InitialRoomState

\* Client c's rooms insert commits in this step although the room has a row
\* by now: its select had found none.
LosesInsert(c) ==
  /\ pc[c] \in {"loadRoom_insert", "joinRoom_roomInsert"}
  /\ pc'[c] # pc[c]
  /\ dbRoom.exists

\* C20: a rooms insert that meets an existing row leaves the row, with the
\* phase and topic written since, as it is, and the bootstrap of that client
\* goes on to its next request; and when every client's bootstrap has
\* finished the room has its row and every client has its players row.
C20_RaceTolerantCreation ==
  [][/\ \A c \in Clients :
          LosesInsert(c) =>
            /\ dbRoom' = dbRoom
            /\ pc'[c] = IF pc[c] = "loadRoom_insert" THEN "loadPlayers_select"
                        ELSE "joinRoom_insert"
     /\ (\A c \in Clients : pc'[c] = "idle") =>
          /\ dbRoom'.exists
          /\ Clients \subseteq IdsOf(dbPlayers')]_vars

\* Both clients found no room, both inserts have committed, there is one row.
C20_Witness ==
  /\ \A c \in Clients :
       /\ pc[c] \in {"loadPlayers_select", "loadPlayers_resume", "joinRoom_room",
                     "joinRoom_insert", "joinRoom_resume", "loadVotes_select",
                     "loadVotes_resume"}
       /\ arg[c].room = NoRoom
  /\ dbRoom.exists

----------------------------------------------------------------------------
(* Properties of the AI vote scheduler (SpecSolo) *)

\* The ids a triggerAiVotes call goes through.
PassIds(p) == IdsOf(p.list)

\* C21: a pass only fills gaps: the participants a starting pass will request
\* and upsert estimates for have no estimate in the starting client's map,
\* and no upsert of a pass replaces the votes row of an AI participant.
C21_PassFillsGaps ==
  [][/\ \A c \in Clients :
          StartsPass(c) => PassIds(pass'[c]) \cap DOMAIN roomState'[c].votes = {}
     /\ \A p \in AiIds : WritesVote(p) => p \notin DOMAIN dbVotes]_vars

\* The triggerAiVotes call of client c returns in this step (line 329).
EndsPass(c) ==
  pass[c].active /\ pass[c].idx > Len(pass[c].list) /\ pass'[c] # pass[c]

\* The isProcessingAI of the render that this step causes on client c.
RenderedProcessing(c) == IF EndsPass(c) THEN FALSE ELSE isProcessingAI[c]

\* The state of client c changes in this step.
StateChange(c) ==
  roomState'[c] # roomState[c] \/ isProcessingAI'[c] # isProcessingAI[c]

\* Projection rs holds an AI participant, and one without an estimate.
HasAi(rs) == \E i \in 1..Len(rs.players) : rs.players[i].type = AI
AiMissing(rs) ==
  \E i \in 1..Len(rs.players) :
    rs.players[i].type = AI /\ rs.players[i].id \notin DOMAIN rs.votes

\* C22: a pass starts on a client only in a step after which its local phase
\* is VOTING, its roster holds an AI participant, it had no pass in flight
\* and some AI participant has no entry in its estimate map; and a step that
\* changes the client's state into such a situation does start a pass.
C22_PassTrigger ==
  [][\A c \in Clients :
       LET cond == /\ roomState'[c].phase = VOTING
                   /\ HasAi(roomState'[c])
                   /\ ~RenderedProcessing(c)
                   /\ AiMissing(roomState'[c]) IN
         /\ StartsPass(c) => cond
         /\ StateChange(c) /\ cond => StartsPass(c)]_vars

\* A pass has just started on u1.
C22_Witness ==
  /\ pass["u1"].active
  /\ pass["u1"].idx = 1
  /\ isProcessingAI["u1"]
  /\ roomState["u1"].phase = VOTING
  /\ AiMissing(roomState["u1"])

\* The entries of list are the AI entries of roster, in the roster's order.
InRosterOrder(list, roster) ==
  /\ Len(list) = Cardinality({i \in 1..Len(roster) : roster[i].type = AI})
  /\ \E f \in [1..Len(list) -> 1..Len(roster)] :
       /\ \A i \in 1..Len(list) : roster[f[i]] = list[i] /\ list[i].type = AI
       /\ \A i \in 1..Len(list) : \A j \in 1..Len(list) : i < j => f[i] < f[j]

\* The pass of client c goes on in this step without starting or ending.
AdvancesPass(c) ==
  pass[c].active /\ pass'[c].active /\ pass'[c] # pass[c] /\ ~StartsPass(c)

\* C23: a client starts a pass only when it has none in flight, the pass
\* holds the AI participants in roster order, and it goes through them one
\* at a time: each step of it commits the estimate of the participant at its
\* position and only then moves to the next; while a pass is in flight
\* isProcessingAI is true.
C23_PassSerialization ==
  [][\A c \in Clients :
       /\ StartsPass(c) =>
            /\ ~pass[c].active \/ EndsPass(c)
            /\ InRosterOrder(pass'[c].list, roomState'[c].players)
       /\ AdvancesPass(c) =>
            /\ pass'[c] = [pass[c] EXCEPT !.idx = pass[c].idx + 1]
            /\ pass[c].idx <= Len(pass[c].list)
            /\ WritesVote(pass[c].list[pass[c].idx].id)
            /\ \A p \in AiIds : WritesVote(p) => p = pass[c].list[pass[c].idx].id
       /\ pass'[c].active => isProcessingAI'[c]]_vars

\* A pass over three AI participants has committed its first two estimates.
C23_Witness ==
  /\ pass["u1"].active
  /\ Len(pass["u1"].list) = 3
  /\ pass["u1"].idx = 3
  /\ {pass["u1"].list[1].id, pass["u1"].list[2].id} \subseteq DOMAIN dbVotes

----------------------------------------------------------------------------
(* Liveness of the AI vote scheduler (SpecHandover) *)

\* Every AI participant of the store's roster has a votes row, and no client
\* has a pass in flight or isProcessingAI set.
SchedulerAtRest ==
  /\ AiInStore \subseteq DOMAIN dbVotes
  /\ \A c \in Clients : ~pass[c].active /\ ~isProcessingAI[c]

\* C24: the scheduler does not come to rest early: when no call is awaited,
\* no event is pending and no pass is in flight, so that nothing more happens
\* unless a user acts, and the room is in VOTING with a client subscribed,
\* every AI participant of the room has an estimate in the store and
\* isProcessingAI is reset.
C24_SchedulerLiveness ==
  /\ Quiescent
  /\ dbRoom.phase = VOTING
  /\ \E c \in Clients : Subscribed(c)
  => SchedulerAtRest

----------------------------------------------------------------------------
(* Properties of reveal and of a round's restart (SpecRestart) *)

\* C25: whenever the store's phase changes from VOTING to REVEALED, every
\* participant of the store's roster has a votes row in the store.
C25_RevealWhenAllVoted ==
  [][dbRoom.phase = VOTING /\ dbRoom'.phase = REVEALED =>
       IdsOf(dbPlayers') \subseteq DOMAIN dbVotes']_vars

\* C26: when a client that did not restart the round learns of the restart,
\* that is, handles the rooms event that turns its local phase to VOTING, its
\* estimate map holds nothing of the round before: in this run no card is
\* cast after the restart, so the map is empty.
C26_NoStaleVotes ==
  [][\A c \in Clients :
       /\ inbox[c] # <<>>
       /\ Handles(c, Head(inbox[c]))
       /\ roomState[c].phase # VOTING
       /\ roomState'[c].phase = VOTING
       => roomState'[c].votes = EmptyMap]_vars

----------------------------------------------------------------------------
(* The frame of updatePhase (SpecNextRound) *)

\* The steps of an updatePhase call of client c: the call with its local
\* update, the commit of the rooms update, the commit of the votes delete.
PhaseCall(c) == pc[c] = "idle" /\ pc'[c] \in {"updatePhase_update", "resetGame"}
PhaseCommit(c) ==
  \/ pc[c] = "updatePhase_update" /\ pc'[c] \in {"updatePhase_delete", "idle"}
  \/ pc[c] = "resetGame" /\ pc'[c] = "resetGame_delete"
DeleteCommit(c) ==
  \/ pc[c] = "updatePhase_delete" /\ pc'[c] = "updatePhase_done"
  \/ pc[c] = "resetGame_delete" /\ pc'[c] = "resetGame_done"

\* C27: updatePhase changes the phase, locally at the call and in the store
\* at its commit, and nothing else but the estimates when the target is
\* VOTING: roster and topic stay as they are, locally and in the store; with
\* target REVEALED the estimate maps stay as they are and nothing is deleted.
C27_PhaseChangeFrame ==
  [][\A c \in Clients :
       /\ PhaseCall(c) =>
            /\ UNCHANGED <<dbRoom, dbPlayers, dbVotes>>
            /\ roomState'[c] =
                 [roomState[c] EXCEPT
                    !.phase = arg'[c],
                    !.votes = IF arg'[c] = VOTING THEN EmptyMap ELSE roomState[c].votes]
       /\ PhaseCommit(c) =>
            /\ dbRoom' = [dbRoom EXCEPT !.phase = arg[c]]
            /\ arg[c] = REVEALED => pc'[c] = "idle"
            /\ UNCHANGED <<dbPlayers, dbVotes, roomState>>
       /\ DeleteCommit(c) =>
            /\ arg[c] = VOTING
            /\ dbVotes' = EmptyMap
            /\ UNCHANGED <<dbRoom, dbPlayers, roomState>>]_vars

\* updatePhase(REVEALED) has committed on a room with a topic and the
\* estimates of u1 and three AI participants.
C27_Witness ==
  /\ dbRoom.phase = REVEALED
  /\ dbRoom.story = TopicA
  /\ roomState["u1"].phase = REVEALED
  /\ roomState["u1"].story = TopicA
  /\ Cardinality(DOMAIN dbVotes) = 4
  /\ Cardinality(DOMAIN roomState["u1"].votes) = 4
  /\ pc["u1"] = "idle"

----------------------------------------------------------------------------
(* C28: addAiPlayers selection *)

\* addAiPlayers is called by c in this step and has a row to insert.
AddAiCallStep(c) == pc[c] = "idle" /\ pc'[c] = "addAiPlayers_insert"

\* One insert of c's addAiPlayers call returns in this step.
AddAiInsertStep(c) == pc[c] = "addAiPlayers_insert" /\ arg'[c] # arg[c]

\* The inserts a call sets out to make: at most 3 distinct catalog ids, none
\* of them in the caller's local roster, all 3 when that roster has no AI
\* participant.
AddAiPicks(c) ==
  LET local == IdsOf(roomState[c].players)
      picks == arg'[c] IN
  /\ Len(picks) <= 3
  /\ \A i \in 1..Len(picks) : picks[i] \in AiIds \ local
  /\ \A i \in 1..Len(picks) : \A j \in 1..Len(picks) : picks[i] = picks[j] => i = j
  /\ Len(picks) >= 3 - Cardinality(AiIds \cap local)
  /\ ~HasAi(roomState[c]) => Len(picks) = 3

\* The store's AI participants: at most 4, each a catalog id, no id twice.
AddAiStore ==
  /\ Cardinality(AiInStore) <= Len(AI_PERSONAS)
  /\ AiInStore \subseteq AiIds
  /\ DistinctIds(dbPlayers)

\* C28 as stated: a call picks 3 distinct personas of the catalog and writes
\* an AI participant row for exactly the picked personas whose id is not in
\* the caller's local roster, so a call on a roster without AI participants
\* adds 3 rows; the room never has more than 4 AI participants, each a
\* catalog id, and no two store rows share an id.
C28_AddAiSelection ==
  [][/\ \A c \in Clients : AddAiCallStep(c) => AddAiPicks(c)
     /\ \A c \in Clients :
          AddAiInsertStep(c) => dbPlayers' = Append(dbPlayers, PlayerRow(Head(arg[c]), AI))
     /\ AddAiStore']_vars

\* C28 amended: as above, but the insert of a picked persona writes its row
\* only when the players table holds no row with that id, and changes
\* nothing otherwise.
C28_AddAiSelectionKeyed ==
  [][/\ \A c \in Clients : AddAiCallStep(c) => AddAiPicks(c)
     /\ \A c \in Clients :
          AddAiInsertStep(c) =>
            IF Head(arg[c]) \in IdsOf(dbPlayers) \cup otherRoomPlayers
              THEN dbPlayers' = dbPlayers
              ELSE dbPlayers' = Append(dbPlayers, PlayerRow(Head(arg[c]), AI))
     /\ AddAiStore']_vars

\* Two calls, each on a local roster without AI participants, have returned
\* and the store holds 4 AI participants.
C28_Witness ==
  /\ ops = 2
  /\ \A c \in Clients : pc[c] = "idle" /\ ~HasAi(roomState[c])
  /\ Cardinality(AiInStore) = 4

----------------------------------------------------------------------------
(* C29: room isolation *)

\* C29: what an operation of this room does depends on this room's contents
\* only: an insert of addAiPlayers for a persona that has no row in this room
\* adds its row, whatever rows the other room holds, so a call on a roster
\* without AI participants adds 3; and a step of the other room changes
\* neither this room's rows nor any event queue or projection of its clients.
C29_RoomIsolation ==
  [][/\ \A c \in Clients :
          AddAiInsertStep(c) /\ Head(arg[c]) \notin IdsOf(dbPlayers) =>
            dbPlayers' = Append(dbPlayers, PlayerRow(Head(arg[c]), AI))
     /\ otherRoomPlayers' # otherRoomPlayers =>
          UNCHANGED <<dbRoom, dbPlayers, dbVotes, inbox, roomState>>]_vars

----------------------------------------------------------------------------
(* C30: estimate events touch one key *)

\* Between the projections before and after, every estimate entry but p's,
\* the roster, the phase and the topic are the same.
OnlyKey(before, after, p) ==
  /\ DOMAIN after.votes \ {p} = DOMAIN before.votes \ {p}
  /\ \A q \in DOMAIN before.votes \ {p} : after.votes[q] = before.votes[q]
  /\ after.players = before.players
  /\ after.phase = before.phase
  /\ after.story = before.story

\* The votes event at the head of client c's feed, when c handles it in this
\* step.
HandlesVoteEvent(c, evs) ==
  /\ inbox[c] # <<>>
  /\ Head(inbox[c]).tbl = "votes"
  /\ Head(inbox[c]).ev \in evs
  /\ Handles(c, Head(inbox[c]))

\* C30: when a client handles an estimate INSERT or UPDATE event for p, its
\* estimates[p] becomes the event's value and rationale; when it handles an
\* estimate DELETE event for p, p has no estimate afterwards; either way
\* every other estimate, the roster, the phase and the topic stay as they
\* were, and handling the same event once more would change nothing.
C30_EstimateEventOneKey ==
  [][\A c \in Clients :
       LET e == Head(inbox[c])
           p == e.row.player_id IN
       /\ HandlesVoteEvent(c, {"INSERT", "UPDATE"}) =>
            /\ p \in DOMAIN roomState'[c].votes
            /\ roomState'[c].votes[p].value = e.row.value
            /\ roomState'[c].votes[p].reasoning = e.row.reasoning
            /\ OnlyKey(roomState[c], roomState'[c], p)
            /\ Handle(roomState'[c], e) = roomState'[c]
       /\ HandlesVoteEvent(c, {"DELETE"}) =>
            /\ p \notin DOMAIN roomState'[c].votes
            /\ OnlyKey(roomState[c], roomState'[c], p)
            /\ Handle(roomState'[c], e) = roomState'[c]]_vars

\* A client whose map holds the estimates of two participants, one of them
\* with a rationale, has an estimate DELETE event for one of them next in
\* its feed.
C30_Witness ==
  \E c \in Clients :
    /\ Subscribed(c)
    /\ inbox[c] # <<>>
    /\ Head(inbox[c]).tbl = "votes" /\ Head(inbox[c]).ev = "DELETE"
    /\ Head(inbox[c]).row.player_id \in DOMAIN roomState[c].votes
    /\ \E q \in DOMAIN roomState[c].votes :
         q # Head(inbox[c]).row.player_id /\ roomState[c].votes[q].reasoning # "undefined"

----------------------------------------------------------------------------
(* C31: room-row events are authoritative *)

\* Client c handles a rooms UPDATE event in this step.
HandlesRoomEvent(c) ==
  /\ inbox[c] # <<>>
  /\ Head(inbox[c]).tbl = "rooms"
  /\ Head(inbox[c]).ev = "UPDATE"
  /\ Handles(c, Head(inbox[c]))

\* C31: when a client handles a rooms UPDATE event, its local phase and
\* topic become those of the event's row, whatever they were before (also a
\* phase its own updatePhase had set ahead of the store), and its roster and
\* estimate map stay as they were.
C31_RoomEventAuthoritative ==
  [][\A c \in Clients :
       HandlesRoomEvent(c) =>
         /\ roomState'[c].phase = Head(inbox[c]).row.phase
         /\ roomState'[c].story = Head(inbox[c]).row.story
         /\ roomState'[c].players = roomState[c].players
         /\ roomState'[c].votes = roomState[c].votes]_vars

\* A client whose updatePhase has set the phase locally and not yet in the
\* store has handled every event of its feed and shows another phase than
\* the one it asked for.
C31_Witness ==
  \E c \in Clients :
    /\ pc[c] = "updatePhase_update"
    /\ inbox[c] = <<>>
    /\ roomState[c].phase # arg[c]

----------------------------------------------------------------------------
(* C32: simulated participants are never removed *)

\* C32: an AI participant row of the store's roster is in the roster after
\* every step; a step that removes rows from the roster is the leaveRoom of
\* a client, and the only row it removes is the human row with that
\* client's id.
C32_AiNeverRemoved ==
  [][/\ AiInStore \subseteq IdsOf(SeqOfType(dbPlayers', AI))
     /\ IdsOf(dbPlayers) \ IdsOf(dbPlayers') # {} =>
          \E c \in Clients :
            /\ pc[c] # "left" /\ pc'[c] = "left"
            /\ IdsOf(dbPlayers) \ IdsOf(dbPlayers') = {c}
            /\ dbPlayers' = SeqFilterOut(dbPlayers, c)
            /\ PlayerRow(c, HUMAN) \in {dbPlayers[i] : i \in 1..Len(dbPlayers)}]_vars

\* A client has left a room whose store roster holds AI participants: its
\* own row is gone and theirs are there.
C32_Witness ==
  \E c \in Clients :
    /\ pc[c] = "left"
    /\ c \notin IdsOf(dbPlayers)
    /\ Cardinality(AiInStore) = 3

----------------------------------------------------------------------------
(* C33: a connected human stays in the room *)

\* C33: while a client's session is open and its bootstrap has ended, the
\* store's roster holds the row of the client's human id; the delete that
\* the cleanup of an earlier run of its effect sent does not remove it.
C33_ConnectedHumanStays ==
  \A c \in Clients : pc[c] = "idle" => c \in IdsOf(dbPlayers)

----------------------------------------------------------------------------
(* C34: projection referential integrity *)

\* C34: on every client and in every state, each key of the local estimate
\* map is the id of a participant of that client's local roster.
C34_ProjectionIntegrity ==
  \A c \in Clients : DOMAIN roomState[c].votes \subseteq IdsOf(roomState[c].players)

----------------------------------------------------------------------------
(* C35: human vote guard *)

\* C35: an upsert of the votes row of a human p commits only in a step
\* whose caller is p, with a current user and the local phase VOTING; the
\* row is keyed by p, carries the card as a string and no rationale, every
\* other votes row is as before, and no local projection changes in the
\* step. So no votes row of a human is written while that human's client
\* has no current user or is not in VOTING, and none by another client.
C35_HumanVoteGuard ==
  [][\A p \in Clients :
       WritesVote(p) =>
         /\ pc[p] \notin {"closed", "left"}
         /\ roomState[p].phase = VOTING
         /\ ops' = ops + 1
         /\ p \in DOMAIN dbVotes'
         /\ dbVotes'[p].player_id = p
         /\ dbVotes'[p].reasoning = "undefined"
         /\ \A q \in DOMAIN dbVotes' \ {p} : q \in DOMAIN dbVotes /\ dbVotes'[q] = dbVotes[q]
         /\ DOMAIN dbVotes \ {p} \subseteq DOMAIN dbVotes'
         /\ roomState' = roomState]_vars

\* A human's votes row is in the store while the other client, whose local
\* phase is not VOTING, has none.
C35_Witness ==
  \E p \in Clients : \E q \in Clients \ {p} :
    /\ p \in DOMAIN dbVotes
    /\ lastVote[p] # NoCard
    /\ q \notin DOMAIN dbVotes
    /\ roomState[q].phase # VOTING

----------------------------------------------------------------------------
(* C36: the store's phase never returns to SETUP *)

\* C36: once the room's row has the phase VOTING or REVEALED, no step takes
\* the row away or sets its phase to SETUP, whichever of updatePhase,
\* updateStory and the requests of a bootstrap (the rooms insert of a client
\* whose select had found no room among them) commits in the step.
C36_NeverBackToSetup ==
  [][dbRoom.exists /\ dbRoom.phase # SETUP =>
       dbRoom'.exists /\ dbRoom'.phase # SETUP]_vars

\* The store's phase is VOTING or REVEALED while the rooms insert of a
\* client whose select had found no room is still to commit.
C36_Witness ==
  /\ dbRoom.exists
  /\ dbRoom.phase # SETUP
  /\ \E c \in Clients : pc[c] \in {"loadRoom_insert", "joinRoom_roomInsert"}

----------------------------------------------------------------------------
(* C37: identity resolution per room *)

\* Lines 40-44 run in this step.
Resolves == resolved' # resolved \/ ops' # ops

\* C37: a resolution for a room that has no stored id generates one and
\* stores it under that room's key; a resolution for a room that has a
\* stored id returns that id and generates none, so a room's stored id never
\* changes; and a resolution for one room leaves the item of every other
\* room as it is.
C37_IdentityPerRoom ==
  [][Resolves =>
       LET roomId == resolved'.roomId
           before == getItem(StorageKey(roomId)) IN
       /\ roomId \in RoomIds
       /\ before = NoItem =>
            /\ resolved'.generated
            /\ localStorage'[StorageKey(roomId)] = resolved'.userId
       /\ before # NoItem =>
            /\ ~resolved'.generated
            /\ resolved'.userId = before
            /\ localStorage'[StorageKey(roomId)] = before
       /\ \A other \in RoomIds \ {roomId} :
            /\ StorageKey(other) \in DOMAIN localStorage' <=> StorageKey(other) \in DOMAIN localStorage
            /\ StorageKey(other) \in DOMAIN localStorage =>
                 localStorage'[StorageKey(other)] = localStorage[StorageKey(other)]]_vars

====
